---- MODULE Spec2Model ----
(***************************************************************************)
(* Candidate discovery pipeline of the trading dashboard:                  *)
(*   agents/universe_screener.py     (narrow, score, classify, assemble,   *)
(*                                    signal-triggered partial dump)       *)
(*   agents/universe_screener_v2.py  (two-stage fast scan, atomic writes,  *)
(*                                    fallback payloads, exit codes)       *)
(*   agents/screener_worker.py       (prefilter_symbols narrowing loop)    *)
(*                                                                         *)
(* Units.  Prices are in cents, returns and ATR in whole percent, share    *)
(* and dollar volumes in thousands, scores in 1/Scale points (Scale is the *)
(* common denominator of the two momentum ramps), so that every Python     *)
(* float expression below is computed exactly.  A missing dictionary key   *)
(* or a Python None is the empty tuple.                                    *)
(***************************************************************************)
EXTENDS Integers, Sequences, FiniteSets, TLC

VARIABLES
    \* ---- life of one scored candidate (score_row .. cold-tape) ----------
    lver,       \* which screener scores the row: "v1" | "v2"
    lrow,       \* the feature row
    lbars,      \* the minute_bars answer for the row's symbol
    lsc,        \* raw score returned by the scoring function (scaled) / None
    lcand,      \* the candidate dictionary / None
    lout,       \* the list the screener returns
    lsm,        \* the short_metrics answer of the late pass, "unasked" before
    lpc         \* "row" | "scored" | "created" | "enriched" | "final"

candVars == <<lver, lrow, lbars, lsc, lcand, lout, lsm, lpc>>

VARIABLES
    \* ---- universe_screener_v2.py: the __main__ block, run twice ---------
    vargs,      \* the command line: [argv, limit, seed, budget_ms, exclude, replay]
    vtable,     \* the cached feature snapshot (a sequence of rows) / None
    vbarsOf,    \* minute_bars answer per symbol
    vrun,       \* 1 | 2: the invocation under way
    vfirst,     \* what the first invocation produced / None
    vpc,        \* position of the process
    vclock,     \* milliseconds since start_time
    vsyms,      \* the sorted shortlist (rows), symbols[:limit * 3]
    vidx,       \* rows of vsyms already scored
    vcands,     \* candidates
    vbroke,     \* the budget check ended the loop
    vpayload,   \* the payload under construction / being written
    vsw,        \* the safe_write_json call under way or last finished
    vfatal,     \* an Exception reached the except clause of __main__
    vdone,      \* main() returned or replay finished
    vfile,      \* content of the output path
    vstdout,    \* payload printed by replay mode / None
    vexit       \* exit code / None

v2Vars == <<vargs, vtable, vbarsOf, vrun, vfirst, vpc, vclock, vsyms, vidx,
            vcands, vbroke, vpayload, vsw, vfatal, vdone, vfile, vstdout, vexit>>

VARIABLES
    \* ---- adaptive narrowing (screen_universe / prefilter_symbols) -------
    nver,       \* "v1" (universe_screener.py) | "worker" (screener_worker.py)
    rows_df,    \* the feature rows the loop works on
    ncfg,       \* prefilter_strategy: start percentiles, step, min/target keep
    adv_pct,    \* current percentile for adv
    dol_pct,    \* current percentile for avg_dollar
    atrp_pct,   \* current percentile for atr_pct
    survivors_df, \* survivors of the last iteration
    symbols,    \* the shortlist handed to scoring
    nrelaxed,   \* relaxation steps taken
    npc         \* "loop" | "rank" | "done"

narrowVars == <<nver, rows_df, ncfg, adv_pct, dol_pct, atrp_pct, survivors_df,
                symbols, nrelaxed, npc>>

VARIABLES
    \* ---- universe_screener.py: main() and the signal handler ------------
    margs,      \* [limit, full_universe, env_json_out, full_enabled]
    screener,   \* the UniverseScreener instance: criteria, shortlist_target,
                \* shortlist_min
    mtable,     \* the cached feature snapshot / None
    mbarsOf,    \* minute_bars answer per symbol
    mshortOf,   \* short_metrics answer per symbol
    json_out_path,   \* the global: None until main() reads JSON_OUT_PATH
    partial_results, \* the global: a list of references to candidate dicts
    candidates, \* the list of screen_universe: references to candidate dicts
    heap,       \* the candidate dicts, by symbol
    mfull,      \* full_universe_mode of the screen_universe call under way
    mpass,      \* 1, or 2 once the full universe was auto-activated
    msurv,      \* survivors_df
    msyms,      \* symbols: the shortlist
    midx,       \* symbols of the shortlist done with
    mcur,       \* the candidate built and not yet appended / None
    mscored,    \* score_row calls completed in this pass
    mfinal,     \* the list screen_universe returned / None
    mwrite,     \* payload of the write_final_json call of main under way / None
    mpc,        \* position of main()
    hpc,        \* position of sigterm_handler: "idle" while not running
    hsig,       \* what was true when the signal arrived / None
    hdump,      \* the payload the handler serialised / None
    hwrote,     \* the handler's write to the path went through
    mfile,      \* content of JSON_OUT_PATH
    mstdout,    \* payloads printed between the salvage markers
    mexit       \* exit code of the process / None

v1Vars == <<margs, screener, mtable, mbarsOf, mshortOf, json_out_path, partial_results,
            candidates, heap, mfull, mpass, msurv, msyms, midx, mcur, mscored, mfinal,
            mwrite, mpc, hpc, hsig, hdump, hwrote, mfile, mstdout, mexit>>

vars == <<candVars, v2Vars, narrowVars, v1Vars>>

notCand == <<v2Vars, narrowVars, v1Vars>>
notV2 == <<candVars, narrowVars, v1Vars>>
notNarrow == <<candVars, v2Vars, v1Vars>>
notV1 == <<candVars, v2Vars, narrowVars>>

-----------------------------------------------------------------------------
(* Python values *)

None == <<>>
Some(v) == <<v>>
Has(x) == x # None
Val(x) == x[1]
\* truthiness of an optional number / an optional flag
Truthy(x) == Has(x) /\ Val(x) # 0
TruthyFlag(x) == Has(x) /\ Val(x)
\* dict.get(key) or 0
OrZero(x) == IF Has(x) THEN Val(x) ELSE 0

Abs(x) == IF x < 0 THEN 0 - x ELSE x
Min(a, b) == IF a <= b THEN a ELSE b
Max(a, b) == IF a >= b THEN a ELSE b

(* The output path, and the states in which a part has not started *)

FileAbsent == [kind |-> "absent"]
\* opened for writing (truncated), the text not yet or only partly written
FileTruncated == [kind |-> "truncated"]
\* the text []
FileEmptyArray == [kind |-> "array"]
FileDoc(p) == [kind |-> "doc", doc |-> p]

NoWrite == [ctx |-> "none", atomic |-> "none", fallback |-> "none",
            ultimate |-> "none", ret |-> "none"]

CandIdle ==
    /\ lver = "none" /\ lrow = None /\ lbars = None /\ lsc = None
    /\ lcand = None /\ lout = <<>> /\ lsm = "unasked" /\ lpc = "idle"

V2Idle ==
    /\ vargs = None /\ vtable = None /\ vbarsOf = None /\ vrun = 0
    /\ vfirst = None /\ vpc = "idle" /\ vclock = 0 /\ vsyms = <<>> /\ vidx = 0
    /\ vcands = <<>> /\ vbroke = FALSE /\ vpayload = None /\ vsw = NoWrite
    /\ vfatal = None /\ vdone = FALSE /\ vfile = FileAbsent /\ vstdout = None
    /\ vexit = None

NarrowIdle ==
    /\ nver = "none" /\ rows_df = <<>> /\ ncfg = None /\ adv_pct = 0
    /\ dol_pct = 0 /\ atrp_pct = 0 /\ survivors_df = <<>> /\ symbols = <<>>
    /\ nrelaxed = 0 /\ npc = "idle"

V1Idle ==
    /\ margs = None /\ screener = None /\ mtable = None /\ mbarsOf = None /\ mshortOf = None
    /\ json_out_path = None /\ partial_results = <<>> /\ candidates = <<>>
    /\ heap = <<>> /\ mfull = FALSE /\ mpass = 0 /\ msurv = <<>> /\ msyms = <<>> /\ midx = 0
    /\ mcur = None /\ mscored = 0 /\ mfinal = None /\ mwrite = None
    /\ mpc = "idle" /\ hpc = "idle" /\ hsig = None /\ hdump = None
    /\ hwrote = FALSE /\ mfile = FileAbsent /\ mstdout = <<>> /\ mexit = None

\* denominators of the two ramps: (25.0 - 2.0) and (40.0 - 8.0)
Scale == 23 * 32
Pts(n) == n * Scale

\* round(x) of a non-negative scaled score to whole points (half to even)
PyRound(x) ==
    LET q == x \div Scale
        r == x % Scale
    IN  IF 2 * r < Scale THEN q
        ELSE IF 2 * r > Scale THEN q + 1
        ELSE IF q % 2 = 0 THEN q ELSE q + 1

\* int(x) of a non-negative scaled score
PyInt(x) == x \div Scale

-----------------------------------------------------------------------------
(* Relative volume from the minute bars (screen_universe, 628-639).        *)
(* A bars answer is None (no key, HTTP failure, exception, fewer than 5    *)
(* bars) or [last30, early10]: the volume of the last 30 bars and the      *)
(* early-session relative volume in tenths.  relvol is the exact fraction  *)
(* last30 / (adv / 390 * 30) = 13 * last30 / adv, kept as [num, den].      *)

Frac(n, d) == [num |-> n, den |-> d]
FracGE(f, tenths) == f.num * 10 >= tenths * f.den
FracGT(f, tenths) == f.num * 10 > tenths * f.den

\* round(f, 1) in tenths, half to even
Round1(f) ==
    LET n == f.num * 10
        q == n \div f.den
        r == n % f.den
    IN  IF 2 * r < f.den THEN q
        ELSE IF 2 * r > f.den THEN q + 1
        ELSE IF q % 2 = 0 THEN q ELSE q + 1

\* a failed lookup leaving relvol at zero whatever the caller's default
RelVolZeroOnFailure(bars, adv, dflt) ==
    IF Has(bars) /\ adv > 0 THEN Frac(13 * Val(bars).last30, adv) ELSE Frac(0, 1)

RelVol(bars, adv, dflt) ==
    IF Has(bars) /\ adv > 0 THEN Frac(13 * Val(bars).last30, adv) ELSE dflt

RelVolV1(bars, row) == RelVol(bars, row.adv, Frac(0, 1))
RelVolV2(bars, row) == RelVol(bars, row.adv, Frac(1, 1))

-----------------------------------------------------------------------------
(* Scoring functions *)

\* ramp(x, lo, hi, max_pts), scaled; den is hi - lo
Ramp(x, lo, hi, max_pts, den) ==
    IF x <= lo THEN 0
    ELSE IF x >= hi THEN Pts(max_pts)
    ELSE (max_pts * (x - lo) * Scale) \div den

momentum_points(r5, r21) ==
    LET p5  == IF Truthy(r5)  THEN Ramp(Val(r5), 2, 25, 10, 23) ELSE 0
        p21 == IF Truthy(r21) THEN Ramp(Val(r21), 8, 40, 15, 32) ELSE 0
    IN  Min(Pts(25), p5 + p21)

squeeze_synergy(float_shares, si_pct, borrow_fee) ==
    (IF Has(float_shares) /\ Val(float_shares) <= 20000 THEN 10 ELSE 0)
    + (IF Has(borrow_fee)
       THEN (IF Val(borrow_fee) >= 50 THEN 10
             ELSE IF Val(borrow_fee) >= 30 THEN 6 ELSE 0)
       ELSE 0)
    + (IF OrZero(si_pct) >= 15 /\ OrZero(borrow_fee) >= 30 THEN 6 ELSE 0)

\* recent_news is abstracted to "the text holds one of the PR keywords"
detect_early_catalysts(row) ==
    (IF TruthyFlag(row.recent_news) THEN 15 ELSE 0)
    + (IF OrZero(row.premarket_gap_pct) >= 10 /\ OrZero(row.relvol_pm) >= 15
       THEN 12 ELSE 0)

\* the news provider call is a stub: no keyword is ever found
detect_pr_catalyst_bonus == 0

detect_premarket_spark_bonus(bars, prev_close, current_price) ==
    IF ~Truthy(prev_close) \/ ~Truthy(current_price) THEN 0
    ELSE LET relvol_pm == IF Has(bars) THEN Val(bars).early10 ELSE 0
             gap_ge_10 == Abs(Val(current_price) - Val(prev_close)) * 100
                              >= 10 * Val(prev_close)
         IN  IF gap_ge_10 /\ relvol_pm >= 15 THEN 8 ELSE 0

\* the options provider call is a stub: OI never rising, gamma exposure 0
detect_options_gex_nudge_points == 0

drawdown_and_spread_penalties(hod_drawdown_pct, bid_ask_spread_pct) ==
    (IF Truthy(hod_drawdown_pct) /\ Val(hod_drawdown_pct) >= 20 THEN 0 - 8 ELSE 0)
    + (IF Truthy(bid_ask_spread_pct) /\ Val(bid_ask_spread_pct) > 12
       THEN (IF Val(bid_ask_spread_pct) > 20 THEN 0 - 5 ELSE 0 - 3)
       ELSE 0)

\* drift of the live price from the cached price is at least 10 %
HasDrift(live_price, cached_price) ==
    /\ Truthy(live_price)
    /\ Truthy(cached_price)
    /\ Abs(Val(live_price) - Val(cached_price)) * 100 >= 10 * Val(cached_price)

live_vs_cached_drift_penalty(live_price, cached_price) ==
    IF HasDrift(live_price, cached_price) THEN 0 - 8 ELSE 0

\* recent_runners is always passed as []: no theme boost
theme_boost_bonus == 0

live_penalties(price, vwap, rsi, drawdown_from_hod) ==
    (IF Has(price) /\ Has(vwap) /\ Val(price) < Val(vwap) THEN 0 - 8 ELSE 0)
    + (IF Has(rsi) /\ Val(rsi) > 75 THEN 0 - 6 ELSE 0)
    + (IF Has(drawdown_from_hod) /\ Val(drawdown_from_hod) >= 20 THEN 0 - 8 ELSE 0)

days_to_cover_bonus(short_shares, adv) ==
    IF ~Truthy(short_shares) \/ adv <= 0 THEN 0
    ELSE IF Val(short_shares) >= 4 * adv THEN 8
    ELSE IF Val(short_shares) >= 2 * adv THEN 4
    ELSE 0

live_vs_cached_sanity_check(live_price, cached_price, score) ==
    IF HasDrift(live_price, cached_price) THEN Max(0, score - Pts(8)) ELSE score

\* score_row before its final clamp
ScoreRowSum(row, bars, relvol) ==
    LET atr == row.atr_pct
        dol == row.avg_dollar
        s1 == Pts(50)
              + momentum_points(Some(row.ret_5d), Some(row.ret_21d))
              + Pts(IF atr >= 3 THEN 10 ELSE IF atr >= 2 THEN 5 ELSE 0)
              + Pts(IF FracGE(relvol, 20) THEN 15
                    ELSE IF FracGE(relvol, 17) THEN 10
                    ELSE IF FracGE(relvol, 15) THEN 4 ELSE 0)
              + Pts(IF dol >= 50000 THEN 8
                    ELSE IF dol >= 20000 THEN 5 ELSE 0)
              + Pts(IF row.breakout20 THEN 12 ELSE 0)
              + Pts(detect_early_catalysts(row))
              + Pts(squeeze_synergy(row.float, row.short_interest_pct,
                                    row.borrow_fee_pct))
              + Pts(days_to_cover_bonus(row.short_shares, row.adv))
              + Pts(detect_pr_catalyst_bonus)
              + Pts(detect_premarket_spark_bonus(bars, row.prev_close,
                                                 Some(row.price)))
              + Pts(detect_options_gex_nudge_points)
              + Pts(drawdown_and_spread_penalties(row.hod_drawdown_pct,
                                                  row.bid_ask_spread_pct))
              + Pts(live_vs_cached_drift_penalty(row.live_price, Some(row.price)))
              + Pts(theme_boost_bonus)
              + Pts(live_penalties(row.live_price, row.live_vwap, row.live_rsi,
                                   row.drawdown_from_hod))
    IN  live_vs_cached_sanity_check(row.live_price, Some(row.price), s1)

Clamp(lo, hi, x) == Max(lo, Min(hi, x))

ScoreFloorV1 == 30
ScoreFloorV2 == 35
ScoreCap == 100

\* score_row without its final clamp
score_row_unclamped(row, bars, relvol) == ScoreRowSum(row, bars, relvol)

score_row(row, bars, relvol) ==
    Clamp(Pts(ScoreFloorV1), Pts(ScoreCap), ScoreRowSum(row, bars, relvol))

\* score_row_cheap before its final clamp
ScoreRowCheapSum(row, relvol) ==
    LET m0 == momentum_points(Some(row.ret_5d), Some(row.ret_21d))
        m1 == IF FracGE(relvol, 25) THEN Min(Pts(30), m0 + Pts(10))
              ELSE IF FracGE(relvol, 20) THEN Min(Pts(30), m0 + Pts(7))
              ELSE IF FracGE(relvol, 15) THEN Min(Pts(30), m0 + Pts(4))
              ELSE m0
        atr == row.atr_pct
        vol == (IF atr >= 8 THEN 15 ELSE IF atr >= 5 THEN 10
                ELSE IF atr >= 3 THEN 6 ELSE IF atr >= 2 THEN 3 ELSE 0)
               + (IF row.breakout20 THEN 5 ELSE 0)
        dol == row.avg_dollar
        tier == IF row.price <= 200 THEN 8
                ELSE IF row.price <= 500 THEN 5
                ELSE IF row.price <= 1000 THEN 2 ELSE 0
        liq == IF row.price < 500
               THEN (IF dol >= 2000 THEN 3 ELSE IF dol >= 1000 THEN 2 ELSE 0)
               ELSE (IF dol >= 10000 THEN 3 ELSE IF dol >= 5000 THEN 2 ELSE 0)
    IN  Pts(45) + m1 + Pts(Min(20, vol)) + Pts(tier) + Pts(liq)

score_row_cheap(row, relvol) ==
    Clamp(Pts(ScoreFloorV2), Pts(ScoreCap), ScoreRowCheapSum(row, relvol))

-----------------------------------------------------------------------------
(* Action classifier *)

map_action(score) ==
    IF score >= Pts(75) THEN "BUY"
    ELSE IF score >= Pts(65) THEN "EARLY_READY"
    ELSE IF score >= Pts(55) THEN "PRE_BREAKOUT"
    ELSE IF score >= Pts(50) THEN "WATCHLIST"
    ELSE "MONITOR"

\* map_action_with_tape with the VWAP test left out of the guard
map_action_with_tape_ema_only(score, live_price, live_vwap, ema9_ge_ema20) ==
    IF score >= Pts(55) /\ ~TruthyFlag(ema9_ge_ema20)
    THEN "PRE_BREAKOUT"
    ELSE map_action(score)

\* map_action_with_tape with the moving-average test left out of the guard
map_action_with_tape_vwap_only(score, live_price, live_vwap, ema9_ge_ema20) ==
    IF /\ score >= Pts(55)
       /\ Truthy(live_price) /\ Truthy(live_vwap)
       /\ Val(live_price) < Val(live_vwap)
    THEN "PRE_BREAKOUT"
    ELSE map_action(score)

map_action_with_tape(score, live_price, live_vwap, ema9_ge_ema20) ==
    LET below_vwap == Truthy(live_price) /\ Truthy(live_vwap)
                      /\ Val(live_price) < Val(live_vwap)
        no_bullish_trend == ~TruthyFlag(ema9_ge_ema20)
    IN  IF score >= Pts(55) /\ (below_vwap \/ no_bullish_trend)
        THEN "PRE_BREAKOUT"
        ELSE map_action(score)

-----------------------------------------------------------------------------
(* Sequences *)

Take(s, n) == SubSeq(s, 1, Min(Len(s), Max(n, 0)))
Drop(s, n) == SubSeq(s, Min(Len(s), Max(n, 0)) + 1, Len(s))

RECURSIVE LexLess(_, _)
LexLess(a, b) ==
    IF a = <<>> \/ b = <<>> THEN FALSE
    ELSE IF Head(a) # Head(b) THEN Head(a) < Head(b)
    ELSE LexLess(Tail(a), Tail(b))

\* stable insertion of x into the sorted sequence s of [k, v] pairs
RECURSIVE InsertStable(_, _)
InsertStable(x, s) ==
    IF s = <<>> THEN <<x>>
    ELSE IF LexLess(x.k, Head(s).k) THEN <<x>> \o s
    ELSE <<Head(s)>> \o InsertStable(x, Tail(s))

\* list.sort / DataFrame.sort_values: ascending in the key, stable
RECURSIVE StableSort(_)
StableSort(s) ==
    IF s = <<>> THEN <<>>
    ELSE InsertStable(s[Len(s)], StableSort(SubSeq(s, 1, Len(s) - 1)))

SeqMap(Op(_), s) == [i \in 1..Len(s) |-> Op(s[i])]
Values(s) == [i \in 1..Len(s) |-> s[i].v]
Range(s) == {s[i] : i \in 1..Len(s)}

\* symbols are compared as strings: their rank in sorted order
Symbols == <<"AAA", "BBB", "CCC", "DDD", "EEE", "FFF",
             "GGG", "HHH", "III", "JJJ", "KKK", "LLL">>
SymRank(sym) == CHOOSE i \in 1..Len(Symbols) : Symbols[i] = sym

-----------------------------------------------------------------------------
(* Candidates of universe_screener.py *)

\* generate_thesis: the text is determined by these inputs
Thesis(score, relvol10, short_info) ==
    [high_conviction |-> score >= 85,
     relvol |-> relvol10,
     squeeze |-> IF Has(short_info) /\ Val(short_info).si > 15
                 THEN (IF Val(short_info).fee > 15 THEN "squeeze" ELSE "watch")
                 ELSE "none",
     cold_tape |-> FALSE]

\* the candidate dictionary built in the scoring loop (653-721)
Candidate(row, sc, relvol) ==
    [symbol |-> row.symbol,
     price |-> row.price,
     score |-> PyRound(sc),
     action |-> map_action_with_tape(sc, row.live_price, row.live_vwap,
                                     row.ema9_ge_ema20),
     rel_vol_30m |-> Round1(IF FracGE(relvol, 10) THEN relvol ELSE Frac(1, 1)),
     thesis |-> Thesis(PyRound(sc), Round1(relvol), None),
     short_interest |-> None,
     short_keys |-> FALSE,
     cold_tape_enhanced |-> FALSE]

\* the late pass adding the bonus without the cap at 100
LateShortInterestUncapped(c, sm) ==
    IF sm = "raise" THEN c
    ELSE LET si   == IF Has(sm) THEN Val(sm).si ELSE 0
             fee  == IF Has(sm) THEN Val(sm).fee ELSE 0
             util == IF Has(sm) THEN Val(sm).util ELSE 0
             bonus == IF si >= 20 /\ (fee >= 20 \/ util >= 85) THEN 10 ELSE 0
             score == c.score + bonus
         IN  [c EXCEPT !.score = score,
                       !.short_interest = IF si # 0 THEN Some(si) ELSE None,
                       !.short_keys = TRUE,
                       !.thesis = IF si > 15 \/ fee > 15
                                  THEN Thesis(score, c.rel_vol_30m, Some([si |-> si, fee |-> fee]))
                                  ELSE @]

\* one iteration of the late short-interest pass (744-767); sm is the
\* short_metrics answer: "raise", None, or Some([si, fee, util]) in percent.
\* The dictionary is created without the keys short_interest, borrow_fee
\* and utilization (short_keys false, short_interest read as None); the
\* pass stores all three, as None when the answer has no such figure.
LateShortInterest(c, sm) ==
    IF sm = "raise" THEN c
    ELSE LET si   == IF Has(sm) THEN Val(sm).si ELSE 0
             fee  == IF Has(sm) THEN Val(sm).fee ELSE 0
             util == IF Has(sm) THEN Val(sm).util ELSE 0
             bonus == IF si >= 20 /\ (fee >= 20 \/ util >= 85) THEN 10 ELSE 0
             score == Min(ScoreCap, c.score + bonus)
         IN  [c EXCEPT !.score = score,
                       !.short_interest = IF si # 0 THEN Some(si) ELSE None,
                       !.short_keys = TRUE,
                       !.thesis = IF si > 15 \/ fee > 15
                                  THEN Thesis(score, c.rel_vol_30m, Some([si |-> si, fee |-> fee]))
                                  ELSE @]

\* candidates.sort(key=(score, price, symbol), reverse=True)
SortFinal(cands) ==
    Values(StableSort([i \in 1..Len(cands) |->
        [k |-> <<0 - cands[i].score, 0 - cands[i].price, 0 - SymRank(cands[i].symbol)>>,
         v |-> cands[i]]]))

ColdTapeEnhance(c) ==
    [c EXCEPT !.action = "PRE_BREAKOUT",
              !.cold_tape_enhanced = TRUE,
              !.thesis = [@ EXCEPT !.cold_tape = TRUE]]

\* the backfill loop (786-800) over the slice, room is limit - len(final)
RECURSIVE ColdTapeFill(_, _)
ColdTapeFill(slice, room) ==
    IF slice = <<>> THEN <<>>
    ELSE IF Head(slice).score >= 55 /\ Head(slice).score <= 64
         THEN IF 1 >= room THEN <<ColdTapeEnhance(Head(slice))>>
              ELSE <<ColdTapeEnhance(Head(slice))>> \o ColdTapeFill(Tail(slice), room - 1)
         ELSE ColdTapeFill(Tail(slice), room)

\* the sorted list handed back without the slice to limit
ColdTapeRecoveryUnsliced(sorted, limit, full_universe_mode) == sorted

\* cold tape recovery (780-806): sorted is the sorted candidates list
ColdTapeRecovery(sorted, limit, full_universe_mode) ==
    LET final == Take(sorted, limit)
    IN  IF Len(final) < limit /\ full_universe_mode
        THEN final \o ColdTapeFill(
                 SubSeq(sorted, Len(final) + 1, Min(Len(sorted), limit * 3)),
                 limit - Len(final))
        ELSE final

-----------------------------------------------------------------------------
(* Candidates of universe_screener_v2.py *)

\* the candidate dictionary built in screen_universe_fast (339-413)
CandidateV2(row, score, relvol) ==
    [symbol |-> row.symbol,
     price |-> row.price,
     score |-> PyInt(score),
     action |-> map_action(score),
     rel_vol_30m |-> Round1(relvol)]

\* "timestamp": time.time() of the candidate dict (412)
Stamped(c, now) ==
    [f \in DOMAIN c \cup {"timestamp"} |-> IF f = "timestamp" THEN now ELSE c[f]]

\* the candidate without the time it was built at
Unstamped(c) == [f \in DOMAIN c \ {"timestamp"} |-> c[f]]

\* candidates.sort(key=(-score, -rel_vol_30m, price, ticker))
SortFinalV2(cands) ==
    Values(StableSort([i \in 1..Len(cands) |->
        [k |-> <<0 - cands[i].score, 0 - cands[i].rel_vol_30m, cands[i].price,
                 SymRank(cands[i].symbol)>>,
         v |-> cands[i]]]))

-----------------------------------------------------------------------------
(* Feature rows.  The snapshot columns (build_universe) are symbol, price, *)
(* adv, avg_dollar, atr_pct, ret_5d, ret_21d, breakout20; every other key  *)
(* score_row reads with row.get is optional.                               *)

CoreRow(sym, price, adv, dol, atr, r5, r21, bo) ==
    [symbol |-> sym, price |-> price, adv |-> adv, avg_dollar |-> dol,
     atr_pct |-> atr, ret_5d |-> r5, ret_21d |-> r21, breakout20 |-> bo,
     recent_news |-> None, premarket_gap_pct |-> None, relvol_pm |-> None,
     float |-> None, short_interest_pct |-> None, borrow_fee_pct |-> None,
     short_shares |-> None, prev_close |-> None,
     hod_drawdown_pct |-> None, bid_ask_spread_pct |-> None,
     live_price |-> None, live_vwap |-> None, live_rsi |-> None,
     drawdown_from_hod |-> None, ema9_ge_ema20 |-> None]

\* optional keys, grouped by the detector that reads them
CatalystKeys == {
    [recent_news |-> None, premarket_gap_pct |-> None, relvol_pm |-> None],
    [recent_news |-> Some(TRUE), premarket_gap_pct |-> Some(4), relvol_pm |-> Some(20)],
    [recent_news |-> Some(TRUE), premarket_gap_pct |-> Some(12), relvol_pm |-> Some(15)]}

SqueezeKeys == {
    [float |-> None, short_interest_pct |-> None, borrow_fee_pct |-> None,
     short_shares |-> None],
    [float |-> Some(15000), short_interest_pct |-> Some(10),
     borrow_fee_pct |-> Some(35), short_shares |-> Some(2000)],
    [float |-> Some(20000), short_interest_pct |-> Some(15),
     borrow_fee_pct |-> Some(50), short_shares |-> Some(200000)]}

PenaltyKeys == {
    [hod_drawdown_pct |-> None, bid_ask_spread_pct |-> None, prev_close |-> None],
    [hod_drawdown_pct |-> Some(5), bid_ask_spread_pct |-> Some(15), prev_close |-> Some(100)],
    [hod_drawdown_pct |-> Some(20), bid_ask_spread_pct |-> Some(21), prev_close |-> Some(700)]}

\* live tape: price and vwap relative to the cached price (percent of it)
TapeKeys == {
    [live |-> None, vwap |-> None, live_rsi |-> None, drawdown_from_hod |-> None,
     ema9_ge_ema20 |-> None],
    [live |-> Some(100), vwap |-> Some(98), live_rsi |-> Some(60),
     drawdown_from_hod |-> Some(0), ema9_ge_ema20 |-> Some(TRUE)],
    [live |-> Some(104), vwap |-> Some(98), live_rsi |-> Some(80),
     drawdown_from_hod |-> Some(5), ema9_ge_ema20 |-> Some(FALSE)],
    [live |-> Some(96), vwap |-> Some(98), live_rsi |-> Some(50),
     drawdown_from_hod |-> Some(2), ema9_ge_ema20 |-> Some(TRUE)],
    [live |-> Some(88), vwap |-> None, live_rsi |-> None,
     drawdown_from_hod |-> None, ema9_ge_ema20 |-> Some(TRUE)],
    [live |-> Some(85), vwap |-> Some(95), live_rsi |-> Some(78),
     drawdown_from_hod |-> Some(25), ema9_ge_ema20 |-> Some(FALSE)]}

PctOf(x, pct) == IF Has(pct) THEN Some((x * Val(pct)) \div 100) ELSE None

WithKeys(core, cat, sq, pen, tape) ==
    [core EXCEPT
        !.recent_news = cat.recent_news,
        !.premarket_gap_pct = cat.premarket_gap_pct,
        !.relvol_pm = cat.relvol_pm,
        !.float = sq.float,
        !.short_interest_pct = sq.short_interest_pct,
        !.borrow_fee_pct = sq.borrow_fee_pct,
        !.short_shares = sq.short_shares,
        !.prev_close = pen.prev_close,
        !.hod_drawdown_pct = pen.hod_drawdown_pct,
        !.bid_ask_spread_pct = pen.bid_ask_spread_pct,
        !.live_price = PctOf(core.price, tape.live),
        !.live_vwap = PctOf(core.price, tape.vwap),
        !.live_rsi = tape.live_rsi,
        !.drawdown_from_hod = tape.drawdown_from_hod,
        !.ema9_ge_ema20 = tape.ema9_ge_ema20]

\* cached features
Ret5Vals == {0 - 5, 0, 13, 14, 30}
Ret21Vals == {0, 24, 45}
AtrVals == {1, 2, 3, 8}
DollarVals == {400, 5000, 50000}
PriceVals == {150, 800, 5000}
AdvOf(dol, price) == (dol * 100) \div price

CoreRows ==
    {CoreRow("AAA", p, AdvOf(d, p), d, a, r5, r21, bo) :
        p \in PriceVals, d \in DollarVals, a \in AtrVals,
        r5 \in Ret5Vals, r21 \in Ret21Vals, bo \in BOOLEAN}

\* three cached profiles carrying every combination of optional keys
ProfileRows ==
    {CoreRow("AAA", 150, 400, 600, 1, 0 - 5, 0, FALSE),
     CoreRow("AAA", 800, 2500, 20000, 2, 14, 24, FALSE),
     CoreRow("AAA", 5000, 1000, 50000, 8, 30, 45, TRUE)}

LiveRows ==
    {WithKeys(core, cat, sq, pen, tape) :
        core \in ProfileRows, cat \in CatalystKeys, sq \in SqueezeKeys,
        pen \in PenaltyKeys, tape \in TapeKeys}

\* minute_bars answers: last-30-bars volume as a multiple (tenths) of the
\* expected 30-minute volume adv / 13, and the early-session relvol
BarsAnswers(row) ==
    {None} \cup
    {Some([last30 |-> (row.adv * b.m + 129) \div 130, early10 |-> b.e]) :
        b \in {[m |-> 12, e |-> 10], [m |-> 15, e |-> 15], [m |-> 17, e |-> 10],
                [m |-> 20, e |-> 15], [m |-> 25, e |-> 15]}}

\* answers of short_metrics to the late pass (percent).  The provider in
\* alpha_providers.py answers None for every symbol; the late pass is written
\* for a dictionary answer and for a raising provider as well, and the
\* life of one candidate below is checked for all of them.
ShortAnswers ==
    {"raise", None,
     Some([si |-> 16, fee |-> 10, util |-> 50]),
     Some([si |-> 25, fee |-> 5, util |-> 90]),
     Some([si |-> 30, fee |-> 40, util |-> 60])}

-----------------------------------------------------------------------------
(* Life of one candidate: the row is scored, the candidate dictionary is   *)
(* built, the late short-interest pass visits it, the list is sorted,      *)
(* sliced and (in full-universe mode) handed to cold-tape recovery.        *)

MaxLimitL == 2


CandInit ==
    /\ lver \in {"v1", "v2"}
    /\ lrow \in (IF lver = "v1" THEN CoreRows \cup LiveRows ELSE CoreRows)
    /\ lbars \in BarsAnswers(lrow)
    /\ lsc = None
    /\ lcand = None
    /\ lout = <<>>
    /\ lsm = "unasked"
    /\ lpc = "row"
    /\ V2Idle /\ NarrowIdle /\ V1Idle

LScoreRow ==
    /\ lpc = "row" /\ lver = "v1"
    /\ lsc' = Some(score_row(lrow, lbars, RelVolV1(lbars, lrow)))
    /\ lpc' = "scored"
    /\ UNCHANGED <<lver, lrow, lbars, lcand, lout, lsm>>
    /\ UNCHANGED notCand

LScoreRowCheap ==
    /\ lpc = "row" /\ lver = "v2"
    /\ lsc' = Some(score_row_cheap(lrow, RelVolV2(lbars, lrow)))
    /\ lpc' = "scored"
    /\ UNCHANGED <<lver, lrow, lbars, lcand, lout, lsm>>
    /\ UNCHANGED notCand

LCreate ==
    /\ lpc = "scored" /\ lver = "v1"
    /\ lcand' = Some(Candidate(lrow, Val(lsc), RelVolV1(lbars, lrow)))
    /\ lpc' = "created"
    /\ UNCHANGED <<lver, lrow, lbars, lsc, lout, lsm>>
    /\ UNCHANGED notCand

LCreateV2 ==
    /\ lpc = "scored" /\ lver = "v2"
    /\ lcand' = Some(CandidateV2(lrow, Val(lsc), RelVolV2(lbars, lrow)))
    /\ lpc' = "created"
    /\ UNCHANGED <<lver, lrow, lbars, lsc, lout, lsm>>
    /\ UNCHANGED notCand

LLateShort ==
    /\ lpc = "created" /\ lver = "v1"
    /\ \E sm \in ShortAnswers :
         /\ lcand' = Some(LateShortInterest(Val(lcand), sm))
         /\ lsm' = sm
    /\ lpc' = "enriched"
    /\ UNCHANGED <<lver, lrow, lbars, lsc, lout>>
    /\ UNCHANGED notCand

LAssemble ==
    /\ lpc = "enriched" /\ lver = "v1"
    /\ \E limit \in 0..MaxLimitL, full \in BOOLEAN :
         lout' = ColdTapeRecovery(SortFinal(<<Val(lcand)>>), limit, full)
    /\ lpc' = "final"
    /\ UNCHANGED <<lver, lrow, lbars, lsc, lcand, lsm>>
    /\ UNCHANGED notCand

LAssembleV2 ==
    /\ lpc = "created" /\ lver = "v2"
    /\ \E limit \in 0..MaxLimitL :
         lout' = Take(SortFinalV2(<<Val(lcand)>>), limit)
    /\ lpc' = "final"
    /\ UNCHANGED <<lver, lrow, lbars, lsc, lcand, lsm>>
    /\ UNCHANGED notCand

CandNext ==
    \/ LScoreRow \/ LScoreRowCheap \/ LCreate \/ LCreateV2
    \/ LLateShort \/ LAssemble \/ LAssembleV2


\* floor of the scoring function in use, in points
LFloor == IF lver = "v1" THEN ScoreFloorV1 ELSE ScoreFloorV2

\* C3: the score returned by score_row / score_row_cheap, the score of the
\* candidate built from it, the score after the late short-interest pass
\* and the score of every item of the returned list lie in [floor, 100],
\* floor being 30 for score_row and 35 for score_row_cheap.
C3_ScoreBounded ==
    /\ Has(lsc) => Pts(LFloor) <= Val(lsc) /\ Val(lsc) <= Pts(ScoreCap)
    /\ Has(lcand) => LFloor <= Val(lcand).score /\ Val(lcand).score <= ScoreCap
    /\ \A i \in 1..Len(lout) : LFloor <= lout[i].score /\ lout[i].score <= ScoreCap

\* a returned item whose additive terms exceed 100 and are reported as 100
C3_Witness ==
    /\ lpc = "final" /\ lver = "v1" /\ Len(lout) = 1
    /\ ScoreRowSum(lrow, lbars, RelVolV1(lbars, lrow)) > Pts(ScoreCap)
    /\ lout[1].score = ScoreCap

\* the tape guard condition of a row: live price below live VWAP, or the
\* EMA9 >= EMA20 flag not set
TapeGuard(row) ==
    \/ Has(row.live_price) /\ Has(row.live_vwap)
       /\ Val(row.live_price) < Val(row.live_vwap)
    \/ row.ema9_ge_ema20 # Some(TRUE)

\* C5: when the tape guard condition holds for a row, its candidate is
\* never reported as BUY, at creation, after the late pass or in the
\* returned list; with a raw score of at least 55 it is PRE_BREAKOUT.
C5_TapeGuardCapsAction ==
    (lver = "v1" /\ TapeGuard(lrow)) =>
        /\ Has(lcand) => /\ Val(lcand).action # "BUY"
                         /\ Val(lsc) >= Pts(55) => Val(lcand).action = "PRE_BREAKOUT"
        /\ \A i \in 1..Len(lout) :
              /\ lout[i].action # "BUY"
              /\ Val(lsc) >= Pts(55) => lout[i].action = "PRE_BREAKOUT"

\* a bullish-EMA row priced below VWAP whose raw score clears the BUY
\* threshold is returned as PRE_BREAKOUT
C5_Witness ==
    /\ lpc = "final" /\ lver = "v1" /\ Len(lout) = 1
    /\ lrow.ema9_ge_ema20 = Some(TRUE)
    /\ Has(lrow.live_price) /\ Has(lrow.live_vwap)
    /\ Val(lrow.live_price) < Val(lrow.live_vwap)
    /\ Val(lsc) >= Pts(75)
    /\ lout[1].action = "PRE_BREAKOUT"

\* C14: a failed enrichment call degrades to the default for that symbol
\* and the symbol stays a candidate: without minute bars the row is scored
\* with the default relvol (0.0 in universe_screener.py, 1.0 in
\* universe_screener_v2.py) and reported with rel_vol_30m 1.0; a raising
\* short_metrics leaves the candidate as it was built, an empty answer adds
\* no bonus and no short interest.
C14_EnrichmentFailureDefaults ==
    /\ (lbars = None /\ Has(lsc)) =>
           Val(lsc) = IF lver = "v1" THEN score_row(lrow, None, Frac(0, 1))
                      ELSE score_row_cheap(lrow, Frac(1, 1))
    /\ lpc \in {"created", "enriched"} =>
           Has(lcand) /\ Val(lcand).symbol = lrow.symbol
    /\ (lbars = None /\ Has(lcand)) => Val(lcand).rel_vol_30m = 10
    /\ (lsm = "raise" /\ lpc = "enriched") =>
           Val(lcand) = Candidate(lrow, Val(lsc), RelVolV1(lbars, lrow))
    /\ ((lsm = "raise" \/ (lsm # "unasked" /\ lsm = None))
            /\ lpc \in {"enriched", "final"}) =>
           /\ Val(lcand).score = PyRound(Val(lsc))
           /\ Val(lcand).short_interest = None

C14_Witness ==
    /\ lpc = "final" /\ lver = "v1" /\ lbars = None /\ lsm = "raise"
    /\ lout = <<Val(lcand)>>
    /\ Val(lcand).rel_vol_30m = 10

\* the candidate dictionary as the scoring loop built it
Created == Candidate(lrow, Val(lsc), RelVolV1(lbars, lrow))

\* the late pass has visited the candidate
LatePassed == lver = "v1" /\ lpc \in {"enriched", "final"}

\* C24 as stated: past its creation a candidate differs from the dictionary
\* that was built in score and thesis at most, the score is not lower and
\* not above 100, and the returned list holds it as the late pass left it.
C24_OnlyScoreAndThesis ==
    LatePassed =>
        /\ Val(lcand) = [Created EXCEPT !.score = Val(lcand).score,
                                        !.thesis = Val(lcand).thesis]
        /\ Val(lcand).score >= Created.score
        /\ Val(lcand).score <= ScoreCap
        /\ \A i \in 1..Len(lout) : lout[i] = Val(lcand)

\* C24: past its creation a candidate differs from the dictionary that was
\* built in score, thesis and the short-interest keys stored by the late
\* pass at most; the score is not lower and not above 100; before the late
\* pass the candidate is as built, and sort, slice and cold-tape recovery
\* return it as the late pass left it.
C24_OnlyLatePassMutates ==
    /\ (lver = "v1" /\ lpc = "created") => Val(lcand) = Created
    /\ LatePassed =>
           /\ Val(lcand) = [Created EXCEPT !.score = Val(lcand).score,
                                           !.thesis = Val(lcand).thesis,
                                           !.short_interest = Val(lcand).short_interest,
                                           !.short_keys = Val(lcand).short_keys]
           /\ Val(lcand).score >= Created.score
           /\ Val(lcand).score <= ScoreCap
           /\ \A i \in 1..Len(lout) : lout[i] = Val(lcand)

\* a candidate built with score 95 is raised to 100 by the squeeze bonus,
\* its thesis regenerated, and returned so
C24_Witness ==
    /\ lpc = "final" /\ lver = "v1" /\ lout = <<Val(lcand)>>
    /\ lsm # "unasked" /\ lsm # "raise" /\ Has(lsm) /\ Val(lsm).si = 30
    /\ Created.score > 90 /\ Created.score < 100
    /\ Val(lcand).score = ScoreCap
    /\ Val(lcand).thesis # Created.thesis

\* the row carries no bullish moving-average flag: the key is absent or
\* None, or the flag is false
NoBullishFlag(row) == ~TruthyFlag(row.ema9_ge_ema20)

\* the row carries none of the live-tape keys
NoLiveTape(row) ==
    /\ row.live_price = None /\ row.live_vwap = None /\ row.live_rsi = None
    /\ row.drawdown_from_hod = None /\ row.ema9_ge_ema20 = None

\* C27: for a row without a bullish moving-average flag and a raw score of
\* at least 55, map_action_with_tape answers PRE_BREAKOUT, and so does the
\* candidate; a candidate built from a row without live-tape keys is never
\* created, enriched or returned as BUY or EARLY_READY.
C27_NoFlagNoBuy ==
    lver = "v1" =>
        /\ (Has(lsc) /\ NoBullishFlag(lrow) /\ Val(lsc) >= Pts(55)) =>
               /\ map_action_with_tape(Val(lsc), lrow.live_price, lrow.live_vwap,
                                       lrow.ema9_ge_ema20) = "PRE_BREAKOUT"
               /\ Has(lcand) => Val(lcand).action = "PRE_BREAKOUT"
        /\ NoLiveTape(lrow) =>
               /\ Has(lcand) => Val(lcand).action \notin {"BUY", "EARLY_READY"}
               /\ \A i \in 1..Len(lout) : lout[i].action \notin {"BUY", "EARLY_READY"}

\* a row trading above its VWAP with the flag false and a raw score over
\* the BUY threshold is returned as PRE_BREAKOUT
C27_Witness ==
    /\ lpc = "final" /\ lver = "v1" /\ Len(lout) = 1
    /\ lrow.ema9_ge_ema20 = Some(FALSE)
    /\ Has(lrow.live_price) /\ Has(lrow.live_vwap)
    /\ Val(lrow.live_price) > Val(lrow.live_vwap)
    /\ Val(lsc) >= Pts(75)
    /\ lout[1].action = "PRE_BREAKOUT"

-----------------------------------------------------------------------------
(* universe_screener_v2.py: stage filters and shortlist (246-312) *)

SeqFilter(s, Keep(_)) == SelectSeq(s, LAMBDA x : Keep(x))

\* STAGE 0: price band $0.10-$100 and adv >= 200000
Stage0(row) == row.price >= 10 /\ row.price <= 10000 /\ row.adv >= 200
\* STAGE 1: liquidity
Stage1(row) == row.avg_dollar >= 1000 \/ (row.price < 500 /\ row.avg_dollar >= 500)
\* STAGE 2: volatility and movement
Stage2(row) == row.atr_pct >= 3 \/ row.ret_5d >= 8 \/ row.ret_21d >= 20
\* STAGE 3: momentum strength
Stage3(row) == row.ret_5d >= 2 \/ row.ret_21d >= 10 \/ row.atr_pct >= 5

\* pre_score, times 10^4
PreScore(row) == 4000 * row.ret_5d + 3000 * row.ret_21d + 2000 * row.atr_pct + row.adv

\* int(md5(symbol + seed)[:8], 16): a fixed scrambling of (symbol, seed)
HashOf(sym, seed) == ((SymRank(sym) * 37 + seed * 14) * (seed + 5)) % 101

\* hash_rank drawn from the wall clock instead of the seed
HashRankClock(sym, seed, clock) == HashOf(sym, clock)

\* hash_rank column: the hash when a non-zero seed is set, else 0
HashRank(sym, seed, clock) == IF Truthy(seed) THEN HashOf(sym, Val(seed)) ELSE 0

ShortlistTargetV2 == 1000

\* the sorted, truncated frame momentum_filtered (246-311)
ShortlistV2(rows, exclude, seed, clock) ==
    LET kept == SeqFilter(rows, LAMBDA r :
                    /\ r.symbol \notin exclude
                    /\ Stage0(r) /\ Stage1(r) /\ Stage2(r) /\ Stage3(r))
        sorted == Values(StableSort([i \in 1..Len(kept) |->
                    [k |-> <<0 - PreScore(kept[i]),
                             HashRank(kept[i].symbol, seed, clock)>>,
                     v |-> kept[i]]]))
    IN  Take(sorted, ShortlistTargetV2)

\* momentum_filtered.loc[symbol == sym].iloc[0]
FirstRow(rows, sym) == rows[CHOOSE i \in 1..Len(rows) :
                              /\ rows[i].symbol = sym
                              /\ \A j \in 1..(i - 1) : rows[j].symbol # sym]

-----------------------------------------------------------------------------
(* universe_screener_v2.py: payloads and files *)

minimal_payload(status, items, meta) ==
    [status |-> status, count |-> Len(items), items |-> items, meta |-> meta]

\* the meta main() passes (466-478)
RunMeta(args, items, duration_ms) ==
    [schema_version |-> 1,
     duration_ms |-> Some(duration_ms),
     partial |-> Some(Len(items) < args.limit),
     params |-> Some([seed |-> args.seed, limit |-> args.limit,
                      budget_ms |-> args.budget_ms, exclude |-> args.exclude]),
     error |-> None, fallback |-> FALSE]

\* the except clause building an ordinary empty result
FallbackPayloadOk(exc) ==
    minimal_payload("ok", <<>>,
        [schema_version |-> 1, duration_ms |-> None, partial |-> None,
         params |-> None, error |-> None, fallback |-> FALSE])

\* the last-resort payload of the except clause (532-541)
FallbackPayload(exc) ==
    minimal_payload("error", <<>>,
        [schema_version |-> 1, duration_ms |-> None, partial |-> None,
         params |-> None, error |-> Some(exc), fallback |-> TRUE])


\* what a reader of the path parses
ValidJson(f) == f.kind \in {"array", "doc"}

\* every way out reporting a failure
ExitCodeNonZero(how) == IF how = "usage" THEN 2 ELSE 1

\* exit code of the process by the way __main__ ends (440, 519-527, 554)
ExitCode(how) ==
    CASE how = "returned" -> 0      \* sys.exit(main(args))
      [] how = "replay"   -> 0      \* sys.exit(0) in replay mode
      [] how = "usage"    -> 2      \* argparse error
      [] how = "fatal"    -> 1      \* sys.exit(1) of the except clause

\* where safe_write_json's caller continues when it returns normally
AfterReturn(ctx) == IF ctx = "main" THEN "return" ELSE "exit_fatal"

\* safe_write_json swallowing the error of its fallback write
AfterFallbackErrorSwallowed(ctx) == AfterReturn(ctx)

\* where control goes when the fallback write of safe_write_json raises
\* (raise inner, 69-71): main's caller is the except clause of __main__,
\* the except clause's own call falls to the ultimate write (546-553)
AfterFallbackError(ctx) == IF ctx = "main" THEN "fatal" ELSE "ult_open"

-----------------------------------------------------------------------------
(* universe_screener_v2.py: the process, invoked twice on the same inputs  *)

MaxLimitV == 2
\* --budget-ms of the runs, and the time one symbol takes (cache hit or a
\* minute_bars round trip)
BudgetMs == 30
FastMs == 1
SlowMs == 20

FixA == CoreRow("AAA", 200, 5000, 10000, 9, 25, 30, TRUE)
FixB == CoreRow("BBB", 5000, 1000, 50000, 1, 1, 2, FALSE)
FixC == CoreRow("CCC", 5, 9000, 450, 9, 12, 5, FALSE)
FixD == CoreRow("DDD", 800, 2500, 20000, 3, 14, 24, FALSE)
FixE == CoreRow("EEE", 800, 2500, 20000, 3, 14, 24, FALSE)
FixF == CoreRow("FFF", 400, 1000, 4000, 5, 6, 12, FALSE)
\* a second row of the snapshot for AAA
FixA2 == CoreRow("AAA", 210, 5000, 10500, 9, 20, 30, TRUE)

\* the snapshot on disk: a table, a file that is not there (and no seed
\* list), or a table without the expected columns
Snapshot(rows) == [kind |-> "rows", rows |-> rows]
SnapshotsV2 ==
    {Snapshot(<<FixA, FixB, FixC>>),
     Snapshot(<<FixE, FixD, FixF, FixA>>),
     Snapshot(<<FixA, FixD, FixA2>>),
     [kind |-> "missing", rows |-> <<>>],
     [kind |-> "bad_schema", rows |-> <<>>]}

BarsProfiles ==
    {[sym \in Range(Symbols) |-> None],
     [sym \in Range(Symbols) |->
         IF sym \in {"AAA", "EEE"} THEN Some([last30 |-> 1000, early10 |-> 15])
         ELSE None]}

\* a payload saved by an earlier run, for --replay-json
SavedPayload ==
    minimal_payload("ok",
        <<CandidateV2(FixA, Pts(90), Frac(2, 1)),
          CandidateV2(FixD, Pts(70), Frac(1, 1)),
          CandidateV2(FixF, Pts(60), Frac(1, 1))>>,
        [schema_version |-> 1, duration_ms |-> Some(5), partial |-> Some(FALSE),
         params |-> None, error |-> None, fallback |-> FALSE])

\* a saved payload with a single item
SavedPayloadShort == [SavedPayload EXCEPT !.items = Take(@, 1), !.count = 1]

\* replay echoing the saved items without the trim
ReplayItemsUntrimmed(payload, limit) == payload["items"]

\* payload['items'][:args.limit] (438)
ReplayItems(payload, limit) == Take(payload["items"], limit)

Args(argv, limit, seed, exclude, replay) ==
    [argv |-> argv, limit |-> limit, seed |-> seed, budget_ms |-> BudgetMs,
     exclude |-> exclude, replay |-> replay]

ArgsV2 ==
    {Args("bad", 0, None, {}, None)}
    \cup {Args("ok", l, None, {}, r) :
             l \in 0..MaxLimitV,
             r \in {Some([ok |-> FALSE]),
                    Some([ok |-> TRUE, payload |-> SavedPayload]),
                    Some([ok |-> TRUE, payload |-> SavedPayloadShort])}}
    \cup {Args("ok", l, sd, ex, None) :
             l \in 0..MaxLimitV, sd \in {None, Some(0), Some(3)},
             ex \in {{}, {"FFF"}}}



V2Init ==
    /\ vargs \in ArgsV2
    /\ vtable \in SnapshotsV2
    /\ vbarsOf \in BarsProfiles
    /\ vrun = 1 /\ vfirst = None /\ vpc = "parse" /\ vclock = 0
    /\ vsyms = <<>> /\ vidx = 0 /\ vcands = <<>> /\ vbroke = FALSE
    /\ vpayload = None /\ vsw = NoWrite /\ vfatal = None /\ vdone = FALSE
    /\ vfile = FileAbsent /\ vstdout = None /\ vexit = None
    /\ CandIdle /\ NarrowIdle /\ V1Idle

\* parser.parse_args() .. mkdir (489-512)
VParseArgs ==
    /\ vpc = "parse"
    /\ \/ /\ vargs.argv = "bad"          \* argparse: usage error, SystemExit
          /\ vpc' = "exit_usage" /\ UNCHANGED vfatal
       \/ /\ vargs.argv = "ok"
          /\ vpc' = "main" /\ UNCHANGED vfatal
       \/ /\ vargs.argv = "ok"           \* mkdir of the parent directory fails
          /\ vpc' = "fatal" /\ vfatal' = Some("OSError")
    /\ UNCHANGED <<vargs, vtable, vbarsOf, vrun, vfirst, vclock, vsyms, vidx,
                   vcands, vbroke, vpayload, vsw, vdone, vfile, vstdout, vexit>>
    /\ UNCHANGED notV2

\* replay mode (434-440)
VReplay ==
    /\ vpc = "main" /\ Has(vargs.replay)
    /\ \/ /\ Val(vargs.replay).ok
          /\ vstdout' = Some([Val(vargs.replay).payload EXCEPT
                                 !.items = ReplayItems(Val(vargs.replay).payload,
                                                       vargs.limit)])
          /\ vdone' = TRUE /\ vpc' = "exit_replay" /\ UNCHANGED vfatal
       \/ /\ ~Val(vargs.replay).ok       \* the file cannot be opened
          /\ vfatal' = Some("FileNotFoundError") /\ vpc' = "fatal"
          /\ UNCHANGED <<vstdout, vdone>>
    /\ UNCHANGED <<vargs, vtable, vbarsOf, vrun, vfirst, vclock, vsyms, vidx,
                   vcands, vbroke, vpayload, vsw, vfile, vexit>>
    /\ UNCHANGED notV2

\* screen_universe_fast up to the scoring loop (183-316)
VLoad ==
    /\ vpc = "main" /\ ~Has(vargs.replay)
    /\ \E load \in {FastMs, SlowMs} :
         \/ /\ vtable.kind = "rows"
            /\ vsyms' = Take(ShortlistV2(vtable.rows, vargs.exclude, vargs.seed, load),
                             vargs.limit * 3)
            /\ vclock' = load /\ vpc' = "loop" /\ UNCHANGED vfatal
         \/ /\ vtable.kind = "missing"   \* return []
            /\ vsyms' = <<>> /\ vclock' = load /\ vpc' = "built" /\ UNCHANGED vfatal
         \/ /\ vtable.kind = "bad_schema" \* rows_df["symbol"] raises KeyError
            /\ vfatal' = Some("KeyError") /\ vpc' = "fatal"
            /\ UNCHANGED <<vsyms, vclock>>
    /\ vidx' = 0 /\ vcands' = <<>> /\ vbroke' = FALSE
    /\ UNCHANGED <<vargs, vtable, vbarsOf, vrun, vfirst, vpayload, vsw, vdone,
                   vfile, vstdout, vexit>>
    /\ UNCHANGED notV2

\* the budget check at the head of the loop (319-321)
VBudgetBreak ==
    /\ vpc = "loop" /\ vidx < Len(vsyms)
    /\ vclock > vargs.budget_ms
    /\ vbroke' = TRUE /\ vpc' = "sort"
    /\ UNCHANGED <<vargs, vtable, vbarsOf, vrun, vfirst, vclock, vsyms, vidx,
                   vcands, vpayload, vsw, vfatal, vdone, vfile, vstdout, vexit>>
    /\ UNCHANGED notV2

\* one iteration of the scoring loop (323-413)
VScoreNext ==
    /\ vpc = "loop" /\ vidx < Len(vsyms)
    /\ vclock <= vargs.budget_ms
    /\ LET sym == vsyms[vidx + 1].symbol
           row == FirstRow(vsyms, sym)
           relvol == RelVolV2(vbarsOf[sym], row)
       IN  vcands' = Append(vcands,
               Stamped(CandidateV2(row, score_row_cheap(row, relvol), relvol), vclock))
    /\ vidx' = vidx + 1
    /\ \E tick \in {FastMs, SlowMs} : vclock' = vclock + tick
    /\ UNCHANGED <<vargs, vtable, vbarsOf, vrun, vfirst, vpc, vsyms, vbroke,
                   vpayload, vsw, vfatal, vdone, vfile, vstdout, vexit>>
    /\ UNCHANGED notV2

\* final sort and slice (415-427), then main builds the payload (459-479)
VAssemble ==
    /\ \/ vpc = "sort"
       \/ vpc = "built"
       \/ vpc = "loop" /\ vidx = Len(vsyms)
    /\ LET final == Take(SortFinalV2(vcands), vargs.limit)
       IN  /\ vcands' = final
           /\ vpayload' = Some(minimal_payload("ok", final, RunMeta(vargs, final, vclock)))
    /\ vsw' = [NoWrite EXCEPT !.ctx = "main"]
    /\ vpc' = "atomic"
    /\ UNCHANGED <<vargs, vtable, vbarsOf, vrun, vfirst, vclock, vsyms, vidx,
                   vbroke, vfatal, vdone, vfile, vstdout, vexit>>
    /\ UNCHANGED notV2

\* write_json_atomic (40-56): temp file, fsync, os.replace; any failure
\* leaves the path as it was
VAtomicWrite ==
    /\ vpc = "atomic"
    /\ \/ /\ vfile' = FileDoc(Val(vpayload))
          /\ vsw' = [vsw EXCEPT !.atomic = "ok", !.ret = "normal"]
          /\ vpc' = AfterReturn(vsw.ctx)
       \/ /\ vsw' = [vsw EXCEPT !.atomic = "failed"]
          /\ vpc' = "fb_open"
          /\ UNCHANGED vfile
    /\ UNCHANGED <<vargs, vtable, vbarsOf, vrun, vfirst, vclock, vsyms, vidx,
                   vcands, vbroke, vpayload, vfatal, vdone, vstdout, vexit>>
    /\ UNCHANGED notV2

\* Path(out_path).write_text('[]') of safe_write_json (66-71): open
VFallbackOpen ==
    /\ vpc = "fb_open"
    /\ \/ /\ vfile' = FileTruncated
          /\ vsw' = [vsw EXCEPT !.fallback = "open"]
          /\ vpc' = "fb_write" /\ UNCHANGED vfatal
       \/ /\ vsw' = [vsw EXCEPT !.fallback = "failed",
                                !.ret = IF AfterFallbackError(vsw.ctx) = AfterReturn(vsw.ctx)
                                        THEN "normal" ELSE "raised"]
          /\ vpc' = AfterFallbackError(vsw.ctx)
          /\ vfatal' = IF AfterFallbackError(vsw.ctx) = "fatal" THEN Some("OSError") ELSE vfatal
          /\ UNCHANGED vfile
    /\ UNCHANGED <<vargs, vtable, vbarsOf, vrun, vfirst, vclock, vsyms, vidx,
                   vcands, vbroke, vpayload, vdone, vstdout, vexit>>
    /\ UNCHANGED notV2

\* ... write and close
VFallbackWrite ==
    /\ vpc = "fb_write"
    /\ \/ /\ vfile' = FileEmptyArray
          /\ vsw' = [vsw EXCEPT !.fallback = "ok", !.ret = "normal"]
          /\ vpc' = AfterReturn(vsw.ctx) /\ UNCHANGED vfatal
       \/ /\ vsw' = [vsw EXCEPT !.fallback = "failed",
                                !.ret = IF AfterFallbackError(vsw.ctx) = AfterReturn(vsw.ctx)
                                        THEN "normal" ELSE "raised"]
          /\ vpc' = AfterFallbackError(vsw.ctx)
          /\ vfatal' = IF AfterFallbackError(vsw.ctx) = "fatal" THEN Some("OSError") ELSE vfatal
          /\ UNCHANGED vfile
    /\ UNCHANGED <<vargs, vtable, vbarsOf, vrun, vfirst, vclock, vsyms, vidx,
                   vcands, vbroke, vpayload, vdone, vstdout, vexit>>
    /\ UNCHANGED notV2

\* main returns 0 (483-484)
VReturn ==
    /\ vpc = "return"
    /\ vdone' = TRUE /\ vpc' = "exit_returned"
    /\ UNCHANGED <<vargs, vtable, vbarsOf, vrun, vfirst, vclock, vsyms, vidx,
                   vcands, vbroke, vpayload, vsw, vfatal, vfile, vstdout, vexit>>
    /\ UNCHANGED notV2

\* except Exception (528-544): build the fallback, call safe_write_json
VFatal ==
    /\ vpc = "fatal"
    /\ vpayload' = Some(FallbackPayload(Val(vfatal)))
    /\ vsw' = [NoWrite EXCEPT !.ctx = "handler"]
    /\ vpc' = "atomic"
    /\ UNCHANGED <<vargs, vtable, vbarsOf, vrun, vfirst, vclock, vsyms, vidx,
                   vcands, vbroke, vfatal, vdone, vfile, vstdout, vexit>>
    /\ UNCHANGED notV2

\* the ultimate fallback Path(out_path).write_text("[]") (546-553): open
VUltimateOpen ==
    /\ vpc = "ult_open"
    /\ \/ /\ vfile' = FileTruncated
          /\ vsw' = [vsw EXCEPT !.ultimate = "open"]
          /\ vpc' = "ult_write"
       \/ /\ vsw' = [vsw EXCEPT !.ultimate = "failed"]
          /\ vpc' = "exit_fatal"
          /\ UNCHANGED vfile
    /\ UNCHANGED <<vargs, vtable, vbarsOf, vrun, vfirst, vclock, vsyms, vidx,
                   vcands, vbroke, vpayload, vfatal, vdone, vstdout, vexit>>
    /\ UNCHANGED notV2

\* ... write and close
VUltimateWrite ==
    /\ vpc = "ult_write"
    /\ \/ /\ vfile' = FileEmptyArray
          /\ vsw' = [vsw EXCEPT !.ultimate = "ok"]
       \/ /\ vsw' = [vsw EXCEPT !.ultimate = "failed"]
          /\ UNCHANGED vfile
    /\ vpc' = "exit_fatal"
    /\ UNCHANGED <<vargs, vtable, vbarsOf, vrun, vfirst, vclock, vsyms, vidx,
                   vcands, vbroke, vpayload, vfatal, vdone, vstdout, vexit>>
    /\ UNCHANGED notV2

\* sys.exit: through except SystemExit (521-527) or from the except clause (554)
VExit ==
    /\ vpc \in {"exit_usage", "exit_replay", "exit_returned", "exit_fatal"}
    /\ vexit' = Some(ExitCode(CASE vpc = "exit_usage" -> "usage"
                                [] vpc = "exit_replay" -> "replay"
                                [] vpc = "exit_returned" -> "returned"
                                [] vpc = "exit_fatal" -> "fatal"))
    /\ vpc' = "exited"
    /\ UNCHANGED <<vargs, vtable, vbarsOf, vrun, vfirst, vclock, vsyms, vidx,
                   vcands, vbroke, vpayload, vsw, vfatal, vdone, vfile, vstdout>>
    /\ UNCHANGED notV2

\* the caller invokes the program again with the same command line, on the
\* same snapshot, with the same provider answers
VRunAgain ==
    /\ vpc = "exited" /\ vrun = 1
    /\ vfirst' = Some([items |-> vcands, scanned |-> vidx, broke |-> vbroke,
                       done |-> vdone, exit |-> vexit])
    /\ vrun' = 2 /\ vpc' = "parse" /\ vclock' = 0
    /\ vsyms' = <<>> /\ vidx' = 0 /\ vcands' = <<>> /\ vbroke' = FALSE
    /\ vpayload' = None /\ vsw' = NoWrite /\ vfatal' = None /\ vdone' = FALSE
    /\ vstdout' = None /\ vexit' = None
    /\ UNCHANGED <<vargs, vtable, vbarsOf, vfile>>
    /\ UNCHANGED notV2

V2Next ==
    \/ VParseArgs \/ VReplay \/ VLoad \/ VBudgetBreak \/ VScoreNext
    \/ VAssemble \/ VAtomicWrite \/ VFallbackOpen \/ VFallbackWrite
    \/ VReturn \/ VFatal \/ VUltimateOpen \/ VUltimateWrite \/ VExit
    \/ VRunAgain

-----------------------------------------------------------------------------
(* Claims about universe_screener_v2.py *)

\* C7: when the atomic write fails safe_write_json writes the minimal valid
\* empty result to the same path; it raises to its caller only if that
\* fallback write fails too; whenever it has returned normally the path
\* holds the full payload or the minimal fallback.
C7_SafeWriteFallback ==
    /\ (vsw.atomic = "failed" /\ vpc # "fb_open") => vsw.fallback # "none"
    /\ vsw.fallback # "none" => vsw.atomic = "failed"
    /\ vsw.fallback = "ok" => vsw.ret = "normal"
    /\ vsw.ret = "raised" <=> vsw.fallback = "failed"
    /\ vsw.ret = "normal" =>
         \/ vsw.atomic = "ok" /\ vfile = FileDoc(Val(vpayload))
         \/ vsw.atomic = "failed" /\ vsw.fallback = "ok" /\ vfile = FileEmptyArray

\* main's atomic write failed, the fallback write went through
C7_Witness ==
    /\ vsw.ctx = "main" /\ vsw.atomic = "failed" /\ vsw.fallback = "ok"
    /\ vsw.ret = "normal" /\ vfile = FileEmptyArray /\ vpc = "return"

\* the fallback write failed too and main's call raised into the except clause
C7_WitnessEscalated ==
    /\ vsw.ctx = "main" /\ vsw.fallback = "failed" /\ vsw.ret = "raised"
    /\ vpc = "fatal" /\ vfatal = Some("OSError")

ErrorDoc(f) ==
    /\ f.kind = "doc" /\ f.doc.status = "error" /\ f.doc.items = <<>>
    /\ f.doc.meta.error = vfatal /\ f.doc.meta.fallback

\* C8 as stated: every error of argument handling or of the run leaves the
\* fallback payload with status error at the output path and a non-zero
\* exit code.
C8_ErrorPayloadWritten ==
    (vpc = "exited" /\ (Has(vfatal) \/ vargs.argv = "bad")) =>
        ErrorDoc(vfile) /\ vexit # Some(0)

\* C8, amended: an exception raised after the arguments are parsed makes
\* the except clause build the payload with status error and hand it to
\* safe_write_json before the process exits with code 1; the path holds
\* that payload whenever its atomic write succeeds, and the empty array or
\* what it held before otherwise; a command line argparse rejects ends the
\* process with code 2 and nothing written.
C8_ErrorPayloadBestEffort ==
    /\ (vpc \in {"exit_fatal", "exited"} /\ Has(vfatal)) =>
          /\ vsw.ctx = "handler" /\ vsw.atomic \in {"ok", "failed"}
          /\ Has(vpayload) /\ Val(vpayload).status = "error"
          /\ Val(vpayload).meta.error = vfatal /\ Val(vpayload).meta.fallback
          /\ vsw.atomic = "ok" => ErrorDoc(vfile)
          /\ vsw.atomic = "failed" =>
                 vfile \in {FileEmptyArray, FileTruncated, FileAbsent}
                 \/ (vrun = 2 /\ vfile.kind = "doc")
    /\ (vpc = "exited" /\ Has(vfatal)) => vexit = Some(1)
    /\ (vpc = "exited" /\ vargs.argv = "bad") =>
          vexit = Some(2) /\ vfile = FileAbsent /\ vsw = NoWrite

\* a KeyError of the run ended as an error payload on the path, exit code 1
C8_Witness ==
    /\ vpc = "exited" /\ vfatal = Some("KeyError") /\ vexit = Some(1)
    /\ ErrorDoc(vfile) /\ vrun = 1

WriteChainExhausted ==
    /\ vsw.ctx = "handler"
    /\ \/ vsw.atomic = "ok"
       \/ vsw.atomic = "failed" /\ vsw.fallback = "ok"
       \/ vsw.atomic = "failed" /\ vsw.fallback = "failed"
          /\ vsw.ultimate \in {"ok", "failed"}

\* C9: the process exits with code 0 on every completed run, empty results
\* included, and with code 1 only after a fatal error whose fallback writes
\* have all been gone through.
C9_ExitCodes ==
    vpc = "exited" =>
        /\ vdone => vexit = Some(0)
        /\ vexit = Some(1) => ~vdone /\ Has(vfatal) /\ WriteChainExhausted

\* a scan that found nothing was written out and the process exited 0
C9_Witness ==
    /\ vpc = "exited" /\ vdone /\ ~Has(vargs.replay) /\ vargs.limit > 0
    /\ vcands = <<>> /\ vexit = Some(0) /\ vfile.kind = "doc"

\* every write of the chain failed and the process exited 1
C9_WitnessFatal ==
    /\ vpc = "exited" /\ vexit = Some(1) /\ vsw.ultimate = "failed"
    /\ vfile = FileAbsent

BothRunsScanned ==
    /\ vrun = 2 /\ vpc = "exited" /\ vdone /\ ~Has(vargs.replay)
    /\ Val(vfirst).done

\* C6 as stated: two runs on the same snapshot, seed, parameters and
\* enrichment answers produce the same sequence of items with the same
\* scores.
C6_Deterministic ==
    BothRunsScanned =>
        SeqMap(Unstamped, vcands) = SeqMap(Unstamped, Val(vfirst).items)

\* C6, amended: two such runs whose budget checks stop the scan after the
\* same number of symbols produce the same symbols in the same order with
\* the same scores, actions and relative volumes; the items differ only in
\* their timestamp.
C6_DeterministicSameScan ==
    (BothRunsScanned /\ vidx = Val(vfirst).scanned) =>
        SeqMap(Unstamped, vcands) = SeqMap(Unstamped, Val(vfirst).items)

\* two seeded runs, both cut by the budget after two symbols, returned the
\* same two candidates, the seed having put DDD before EEE
C6_Witness ==
    /\ BothRunsScanned /\ vidx = Val(vfirst).scanned /\ vidx = 2 /\ vbroke
    /\ Truthy(vargs.seed) /\ Len(vcands) = 2
    /\ {vcands[1].symbol, vcands[2].symbol} = {"AAA", "DDD"}
    /\ vcands # Val(vfirst).items

\* the payload of main() has been built in this run
MainPayloadBuilt == Has(vpayload) /\ Val(vpayload).status = "ok"

\* C11: when the budget check has stopped the scoring loop, the payload main
\* emits carries meta.partial = true.
C11_BudgetBreakIsPartial ==
    (vbroke /\ MainPayloadBuilt) => Val(vpayload).meta.partial = Some(TRUE)

\* the narrowed shortlist of this run: momentum_filtered after head()
NarrowedV2 == ShortlistV2(vtable.rows, vargs.exclude, vargs.seed, 0)

\* C12: in a run that was not cut short by the budget, every symbol of the
\* narrowed shortlist has been scored when the result is assembled.
C12_AllSurvivorsScored ==
    (MainPayloadBuilt /\ ~vbroke /\ vtable.kind = "rows") =>
        vidx = Len(NarrowedV2)

\* a replay run has printed its payload
Replayed == Has(vargs.replay) /\ Val(vargs.replay).ok /\ Has(vstdout)

\* C18: in replay mode the printed payload's items are the first
\* min(n, limit) items of the saved payload, in order and unchanged, and
\* no scan is run and nothing is written.
C18_ReplayFirstItems ==
    Replayed =>
        LET saved == Val(vargs.replay).payload.items
            items == Val(vstdout).items
        IN  /\ Len(items) = Min(Len(saved), vargs.limit)
            /\ \A i \in 1..Len(items) : items[i] = saved[i]
            /\ vidx = 0 /\ vsyms = <<>> /\ vcands = <<>> /\ vsw = NoWrite

C18_Witness ==
    /\ Replayed /\ vpc = "exited" /\ vexit = Some(0) /\ vargs.limit = 2
    /\ Len(Val(vargs.replay).payload.items) = 3
    /\ Val(vstdout).items = <<SavedPayload.items[1], SavedPayload.items[2]>>

\* C19: a document written to the output path is a JSON object with the
\* top-level fields status, count, items and meta.
C19_ArtifactEnvelope ==
    ValidJson(vfile) =>
        /\ vfile.kind = "doc"
        /\ {"status", "count", "items", "meta"} \subseteq DOMAIN vfile.doc

\* no two entries of a list of rows or candidates carry the same symbol
DistinctSymbols(s) ==
    \A i \in 1..Len(s), j \in 1..Len(s) : i # j => s[i].symbol # s[j].symbol

\* C20: no symbol appears twice in the shortlist handed to scoring or in
\* the items of the result, also when the snapshot holds two rows for one
\* symbol.
C20_NoDuplicateSymbols == DistinctSymbols(vsyms) /\ DistinctSymbols(vcands)

\* count of a payload is the length of its items
CountMatches(p) == p.count = Len(p.items)

\* C25: in every payload universe_screener_v2 emits (printed by replay,
\* built by main or by the error fallback, stored at the output path) count
\* equals the number of items.
C25_CountMatchesItems ==
    /\ Has(vstdout) => CountMatches(Val(vstdout))
    /\ Has(vpayload) => CountMatches(Val(vpayload))
    /\ vfile.kind = "doc" => CountMatches(vfile.doc)

-----------------------------------------------------------------------------
(* Adaptive narrowing: universe_screener.py 379-433, screener_worker.py    *)
(* 103-155                                                                 *)

SortedNums(a) ==
    Values(StableSort([i \in 1..Len(a) |-> [k |-> <<a[i]>>, v |-> a[i]]]))

\* v >= pct(a, p): np.nanpercentile interpolates linearly between the two
\* order statistics around p/100 * (n - 1); on an empty array it is nan and
\* no comparison with it holds
GEPct(v, a, p) ==
    IF Len(a) = 0 THEN FALSE
    ELSE LET srt == SortedNums(a)
             pos == p * (Len(a) - 1)
             lo == pos \div 100
             rem == pos % 100
             hi == Min(lo + 1, Len(a) - 1)
         IN  v * 100 >= srt[lo + 1] * 100 + rem * (srt[hi + 1] - srt[lo + 1])

Column(rows, f) == [i \in 1..Len(rows) |-> rows[i][f]]

\* base: rows at or above all three thresholds
Base(rows, a, d, t) ==
    SeqFilter(rows, LAMBDA r :
        /\ GEPct(r.adv, Column(rows, "adv"), a)
        /\ GEPct(r.avg_dollar, Column(rows, "avg_dollar"), d)
        /\ GEPct(r.atr_pct, Column(rows, "atr_pct"), t))

\* the momentum lane of universe_screener.py (414)
HotV1(rows) == SeqFilter(rows, LAMBDA r : r.ret_5d >= 10 \/ r.breakout20 = TRUE)

\* the momentum lane of screener_worker.py (128-131), default lane config
HotWorker(rows) == SeqFilter(rows, LAMBDA r : r.ret_5d >= 15 \/ r.day_range >= 8)

\* pd.concat(..).drop_duplicates(subset=["symbol"]): the first row of each
\* symbol stays, in place
RECURSIVE DropDuplicates(_, _)
DropDuplicates(rows, seen) ==
    IF rows = <<>> THEN <<>>
    ELSE IF Head(rows).symbol \in seen THEN DropDuplicates(Tail(rows), seen)
    ELSE <<Head(rows)>> \o DropDuplicates(Tail(rows), seen \cup {Head(rows).symbol})

\* {r['symbol']: r for r in base + hot}.values(): the place of the first
\* row of each symbol, the value of the last
DictMerge(rows) ==
    LET firsts == DropDuplicates(rows, {})
        LastOf(sym) == rows[CHOOSE i \in 1..Len(rows) :
                              /\ rows[i].symbol = sym
                              /\ \A j \in (i + 1)..Len(rows) : rows[j].symbol # sym]
    IN  [i \in 1..Len(firsts) |-> LastOf(firsts[i].symbol)]

Survivors(ver, rows, a, d, t) ==
    IF ver = "v1" THEN DropDuplicates(Base(rows, a, d, t) \o HotV1(rows), {})
    ELSE DictMerge(Base(rows, a, d, t) \o HotWorker(rows))

AtFloor(a, d, t) == a <= 10 /\ d <= 10 /\ t <= 20

\* sort_values(["avg_dollar","atr_pct","ret_5d","symbol"],
\*             ascending=[False,False,False,True])
RankV1(rows) ==
    Values(StableSort([i \in 1..Len(rows) |->
        [k |-> <<0 - rows[i].avg_dollar, 0 - rows[i].atr_pct, 0 - rows[i].ret_5d,
                 SymRank(rows[i].symbol)>>,
         v |-> rows[i]]]))

\* survivors.sort(key=qscore, reverse=True), qscore = 0.5 * avg_dollar +
\* 0.3 * atr_pct + 0.2 * ret_5d: with avg_dollar in whole thousands of
\* dollars and the two fractions below 100 the first term decides, then
\* 3 * atr_pct + 2 * ret_5d
RankWorker(rows) ==
    Values(StableSort([i \in 1..Len(rows) |->
        [k |-> <<0 - rows[i].avg_dollar,
                 0 - (3 * rows[i].atr_pct + 2 * rows[i].ret_5d)>>,
         v |-> rows[i]]]))

FallbackKeep == 50

\* the shortlist of universe_screener.py with its final fallback (422-433)
ShortlistV1(rows, survivors, min_keep, target_keep) ==
    LET kept == Take(RankV1(survivors), target_keep)
    IN  IF kept = <<>>
        THEN Take(RankV1(rows), Max(FallbackKeep, min_keep \div 2))
        ELSE kept

\* kept = survivors[:target_keep] (152-155)
ShortlistWorker(survivors, target_keep) == Take(RankWorker(survivors), target_keep)

NarrowRow(sym, adv, dol, atr, r5, bo, dr) ==
    [symbol |-> sym, adv |-> adv, avg_dollar |-> dol, atr_pct |-> atr,
     ret_5d |-> r5, breakout20 |-> bo, day_range |-> dr]

MaxRows == 3
MaxRelax == 10

\* liquid and quiet, thin and volatile, in between, two lane names, and a
\* thin name at a 20-day high with a modest week
NarrowShapes ==
    {[adv |-> 900, avg_dollar |-> 400, atr_pct |-> 1, ret_5d |-> 1,
      breakout20 |-> FALSE, day_range |-> 1],
     [adv |-> 100, avg_dollar |-> 5000, atr_pct |-> 2, ret_5d |-> 0 - 3,
      breakout20 |-> FALSE, day_range |-> 2],
     [adv |-> 400, avg_dollar |-> 900, atr_pct |-> 8, ret_5d |-> 4,
      breakout20 |-> FALSE, day_range |-> 3],
     [adv |-> 50, avg_dollar |-> 100, atr_pct |-> 1, ret_5d |-> 12,
      breakout20 |-> FALSE, day_range |-> 9],
     [adv |-> 60, avg_dollar |-> 200, atr_pct |-> 1, ret_5d |-> 20,
      breakout20 |-> TRUE, day_range |-> 1],
     [adv |-> 70, avg_dollar |-> 300, atr_pct |-> 1, ret_5d |-> 12,
      breakout20 |-> TRUE, day_range |-> 1]}

Named(shape, sym) ==
    NarrowRow(sym, shape.adv, shape.avg_dollar, shape.atr_pct, shape.ret_5d,
              shape.breakout20, shape.day_range)

NarrowTables ==
    UNION {{[i \in 1..n |-> Named(f[i], Symbols[i])] : f \in [1..n -> NarrowShapes]} :
           n \in 0..MaxRows}

\* prefilter_strategy, the defaults of the code among them
NarrowConfigs ==
    [adv_pct_min : {40}, dollar_pct_min : {40, 5}, atr_pct_min : {60, 30},
     step_percentile : {0, 5, 25}, min_keep : {0, 2, 120},
     target_keep : {0, 1, 200}]

NarrowInit ==
    /\ nver \in {"v1", "worker"}
    /\ rows_df \in NarrowTables
    /\ ncfg \in NarrowConfigs
    /\ adv_pct = ncfg.adv_pct_min
    /\ dol_pct = ncfg.dollar_pct_min
    /\ atrp_pct = ncfg.atr_pct_min
    /\ survivors_df = <<>> /\ symbols = <<>> /\ nrelaxed = 0
    /\ npc = "loop"
    /\ CandIdle /\ V2Idle /\ V1Idle

\* if not rows: return [] (screener_worker.py 97-99)
NNoRows ==
    /\ npc = "loop" /\ nver = "worker" /\ rows_df = <<>>
    /\ symbols' = <<>> /\ npc' = "done"
    /\ UNCHANGED <<nver, rows_df, ncfg, adv_pct, dol_pct, atrp_pct,
                   survivors_df, nrelaxed>>
    /\ UNCHANGED notNarrow

\* one pass of while True whose test breaks the loop
NBreak ==
    /\ npc = "loop" /\ (nver = "v1" \/ rows_df # <<>>)
    /\ LET s == Survivors(nver, rows_df, adv_pct, dol_pct, atrp_pct)
       IN  /\ Len(s) >= ncfg.min_keep \/ AtFloor(adv_pct, dol_pct, atrp_pct)
           /\ survivors_df' = s
    /\ npc' = "rank"
    /\ UNCHANGED <<nver, rows_df, ncfg, adv_pct, dol_pct, atrp_pct, symbols,
                   nrelaxed>>
    /\ UNCHANGED notNarrow

\* one pass of while True that relaxes the thresholds
NRelax ==
    /\ npc = "loop" /\ (nver = "v1" \/ rows_df # <<>>)
    /\ LET s == Survivors(nver, rows_df, adv_pct, dol_pct, atrp_pct)
       IN  /\ ~(Len(s) >= ncfg.min_keep \/ AtFloor(adv_pct, dol_pct, atrp_pct))
           /\ survivors_df' = s
    /\ adv_pct' = Max(10, adv_pct - ncfg.step_percentile)
    /\ dol_pct' = Max(10, dol_pct - ncfg.step_percentile)
    /\ atrp_pct' = Max(20, atrp_pct - ncfg.step_percentile)
    /\ nrelaxed' = Min(nrelaxed + 1, MaxRelax)
    /\ UNCHANGED <<nver, rows_df, ncfg, symbols, npc>>
    /\ UNCHANGED notNarrow

\* rank, truncate and (universe_screener.py) fall back
NShortlist ==
    /\ npc = "rank"
    /\ symbols' = IF nver = "v1"
                  THEN ShortlistV1(rows_df, survivors_df, ncfg.min_keep, ncfg.target_keep)
                  ELSE ShortlistWorker(survivors_df, ncfg.target_keep)
    /\ npc' = "done"
    /\ UNCHANGED <<nver, rows_df, ncfg, adv_pct, dol_pct, atrp_pct,
                   survivors_df, nrelaxed>>
    /\ UNCHANGED notNarrow

NarrowNext == NNoRows \/ NBreak \/ NRelax \/ NShortlist

\* C4 as stated: the narrowing loop ends after a bounded number of
\* relaxation steps and hands between 0 and target_keep symbols to scoring,
\* for every table and every configuration.
C4_ShortlistWithinTarget ==
    /\ nrelaxed < MaxRelax
    /\ npc = "done" => Len(symbols) <= ncfg.target_keep

\* lane_min: 0.10 in universe_screener.py (414), lane.get('ret_5d_min', 0.15)
\* in screener_worker.py (130), in percent
LaneMin(ver) == IF ver = "v1" THEN 10 ELSE 15

\* the loop body has run at least once: survivors_df is the union of the
\* last iteration
Iterated == npc # "loop" \/ nrelaxed > 0

\* C23: after every iteration of the narrowing loop the survivor union
\* holds every row with ret_5d >= lane_min or breakout20 = true, whatever its
\* adv, avg_dollar and atr_pct.
C23_LaneBypassesGates ==
    Iterated =>
        \A i \in 1..Len(rows_df) :
            (rows_df[i].ret_5d >= LaneMin(nver) \/ rows_df[i].breakout20) =>
                \E j \in 1..Len(survivors_df) : survivors_df[j] = rows_df[i]

\* the test that ends the while True loop (416; screener_worker.py 137)
LoopEnds(s) == Len(s) >= ncfg.min_keep \/ AtFloor(adv_pct, dol_pct, atrp_pct)

\* C22: from one iteration of the narrowing loop to the next no percentile
\* threshold rises, a threshold that changes goes down by the step or lands
\* on its floor, and the loop goes on exactly while the union is below
\* min_keep and some threshold is above its floor.
C22_MonotoneRelaxing ==
    [][/\ adv_pct' <= adv_pct /\ dol_pct' <= dol_pct /\ atrp_pct' <= atrp_pct
       /\ adv_pct' \in {adv_pct, adv_pct - ncfg.step_percentile, 10}
       /\ dol_pct' \in {dol_pct, dol_pct - ncfg.step_percentile, 10}
       /\ atrp_pct' \in {atrp_pct, atrp_pct - ncfg.step_percentile, 20}
       /\ (npc = "loop" /\ npc' = "rank") => LoopEnds(survivors_df')
       /\ (npc = "loop" /\ npc' = "loop") => ~LoopEnds(survivors_df')]_vars

-----------------------------------------------------------------------------
(* universe_screener.py: main(), screen_universe and the signal handler    *)

\* the while True loop of the narrowing run to its break
RECURSIVE NarrowLoop(_, _, _, _, _, _, _)
NarrowLoop(ver, rows, a, d, t, step, min_keep) ==
    LET surv == Survivors(ver, rows, a, d, t)
    IN  IF Len(surv) >= min_keep \/ AtFloor(a, d, t) THEN surv
        ELSE NarrowLoop(ver, rows, Max(10, a - step), Max(10, d - step),
                        Max(20, t - step), step, min_keep)

\* self.criteria of UniverseScreener.__init__ (345-348), in cents
MinPrice == 10
MaxPrice == 10000
InPriceBand(price) == price >= MinPrice /\ price <= MaxPrice

\* the fields UniverseScreener.__init__ sets from the default configuration
\* (345-350), the price band in cents
DefaultInstance ==
    [criteria |-> [min_price |-> MinPrice, max_price |-> MaxPrice],
     shortlist_target |-> 200, shortlist_min |-> 120]

\* the fields as ColdTapeRecovery.relaxed_scan sets them before its call
\* (cold-tape-recovery.py 36-38)
RelaxedInstance ==
    [criteria |-> [min_price |-> 50, max_price |-> MaxPrice],
     shortlist_target |-> 300, shortlist_min |-> 150]

\* an instance built under a configuration with target_keep = min_keep = 1
\* and a narrow price band
TightInstance ==
    [criteria |-> [min_price |-> 100, max_price |-> 1000],
     shortlist_target |-> 1, shortlist_min |-> 1]

Instances == {DefaultInstance, RelaxedInstance, TightInstance}

\* narrowing parameters taken from the fields of the instance
NarrowParamsFromInstance(self, full_universe_mode) ==
    IF full_universe_mode
    THEN [adv_pct |-> 20, dol_pct |-> 20, atrp_pct |-> 30, step |-> 2,
          shortlist_target |-> 2000, shortlist_min |-> 1000]
    ELSE [adv_pct |-> 40, dol_pct |-> 40, atrp_pct |-> 60, step |-> 5,
          shortlist_target |-> self.shortlist_target,
          shortlist_min |-> self.shortlist_min]

\* the narrowing parameters by mode (385-399), defaults of the code: locals
\* read from CONF, no field of self is consulted
NarrowParams(self, full_universe_mode) ==
    IF full_universe_mode
    THEN [adv_pct |-> 20, dol_pct |-> 20, atrp_pct |-> 30, step |-> 2,
          shortlist_target |-> 2000, shortlist_min |-> 1000]
    ELSE [adv_pct |-> 40, dol_pct |-> 40, atrp_pct |-> 60, step |-> 5,
          shortlist_target |-> 200, shortlist_min |-> 120]

\* the dicts a list refers to
Deref(h, refs) == [i \in 1..Len(refs) |-> Val(h[refs[i]])]

\* json.dumps(results) of a list of candidates: a bare array, no envelope
ListPayload(items) == [items |-> items, meta |-> None]

\* len(candidates) % 10 == 0 (733)
FlushEvery == 10
\* full_config.get("activate_when", 10) (776)
ActivateWhen == 10

\* the handler returning to the interrupted code
AfterDumpReturns == "idle"

\* os._exit(0) at the end of sigterm_handler (58)
AfterDump == "exited"

Refs == {1, 2} \X Range(Symbols)

\* eleven liquid names, enough for one periodic flush
BigTable ==
    [i \in 1..11 |->
        CoreRow(Symbols[i], 800, 2500, 20000, 3, ((i * 7) % 16) - 2,
                (i * 11) % 30, i % 4 = 0)]

\* two names no threshold set admits together and no lane admits
ThinTable ==
    <<CoreRow("AAA", 800, 9000, 400, 1, 1, 2, FALSE),
      CoreRow("BBB", 800, 100, 5000, 2, 0 - 3, 1, FALSE)>>

TablesV1 ==
    {Snapshot(<<FixA, FixB, FixC>>), Snapshot(BigTable), Snapshot(ThinTable),
     [kind |-> "missing", rows |-> <<>>]}

\* short_metrics as the runner imports it: a placeholder that answers None
\* for every symbol
ShortProfiles ==
    {[sym \in Range(Symbols) |-> None]}

ArgsV1 ==
    [limit : {2, 10}, full_universe : BOOLEAN, full_enabled : BOOLEAN,
     env_json_out : {None, Some("out.json")}]

V1Init ==
    /\ margs \in ArgsV1
    /\ screener \in Instances
    /\ mtable \in TablesV1
    /\ mbarsOf \in BarsProfiles
    /\ mshortOf \in ShortProfiles
    /\ json_out_path = None /\ partial_results = <<>> /\ candidates = <<>>
    /\ heap = [r \in Refs |-> None]
    /\ mfull = FALSE /\ mpass = 1 /\ msurv = <<>> /\ msyms = <<>> /\ midx = 0
    /\ mcur = None /\ mscored = 0 /\ mfinal = None /\ mwrite = None
    /\ mpc = "start" /\ hpc = "idle" /\ hsig = None /\ hdump = None
    /\ hwrote = FALSE /\ mfile = FileAbsent /\ mstdout = <<>> /\ mexit = None
    /\ CandIdle /\ V2Idle /\ NarrowIdle

\* main() up to the call of screen_universe (809-835): the globals are set
MStart ==
    /\ mpc = "start" /\ hpc = "idle"
    /\ json_out_path' = margs.env_json_out
    /\ mfull' = margs.full_universe
    /\ mpc' = "load"
    /\ UNCHANGED <<margs, screener, mtable, mbarsOf, mshortOf, partial_results,
                   candidates, heap, mpass, msurv, msyms, midx, mcur,
                   mscored, mfinal, mwrite, hpc, hsig, hdump, hwrote, mfile,
                   mstdout, mexit>>
    /\ UNCHANGED notV1

\* screen_universe from its first line to the head of the scoring loop
\* (355-624): load, narrow, shortlist
MLoad ==
    /\ mpc = "load" /\ hpc = "idle"
    /\ LET rows == mtable.rows
           par == NarrowParams(screener, mfull)
           surv == NarrowLoop("v1", rows, par.adv_pct, par.dol_pct, par.atrp_pct,
                              par.step, par.shortlist_min)
       IN  /\ msurv' = surv
           /\ msyms' = Column(ShortlistV1(rows, surv, par.shortlist_min,
                                          par.shortlist_target), "symbol")
    /\ candidates' = <<>> /\ midx' = 0 /\ mscored' = 0 /\ mcur' = None
    /\ mpc' = "score"
    /\ UNCHANGED <<margs, screener, mtable, mbarsOf, mshortOf, json_out_path,
                   partial_results, heap, mfull, mpass, mfinal, mwrite, hpc,
                   hsig, hdump, hwrote, mfile, mstdout, mexit>>
    /\ UNCHANGED notV1

\* the loop body up to the finished candidate dict (626-724); no handler
\* surrounds the row lookup, an IndexError ends the process
MScoreRow ==
    /\ mpc = "score" /\ hpc = "idle" /\ midx < Len(msyms)
    /\ LET sym == msyms[midx + 1]
       IN  IF \A i \in 1..Len(msurv) : msurv[i].symbol # sym
           THEN /\ mpc' = "crashed" /\ mexit' = Some(1)
                /\ UNCHANGED <<mcur, mscored>>
           ELSE LET row == FirstRow(msurv, sym)
                    relvol == RelVolV1(mbarsOf[sym], row)
                    sc == score_row(row, mbarsOf[sym], relvol)
                IN  /\ mcur' = Some(Candidate(row, sc, relvol))
                    /\ mscored' = mscored + 1
                    /\ mpc' = "append"
                    /\ UNCHANGED mexit
    /\ UNCHANGED <<margs, screener, mtable, mbarsOf, mshortOf, json_out_path,
                   partial_results, candidates, heap, mfull, mpass, msurv,
                   msyms, midx, mfinal, mwrite, hpc, hsig, hdump, hwrote,
                   mfile, mstdout>>
    /\ UNCHANGED notV1

\* candidates.append(candidate) (726)
MAppend ==
    /\ mpc = "append" /\ hpc = "idle"
    /\ LET ref == <<mpass, Val(mcur).symbol>>
       IN  /\ candidates' = Append(candidates, ref)
           /\ heap' = [heap EXCEPT ![ref] = mcur]
    /\ mcur' = None
    /\ mpc' = "publish"
    /\ UNCHANGED <<margs, screener, mtable, mbarsOf, mshortOf, json_out_path,
                   partial_results, mfull, mpass, msurv, msyms, midx,
                   mscored, mfinal, mwrite, hpc, hsig, hdump, hwrote, mfile,
                   mstdout, mexit>>
    /\ UNCHANGED notV1

\* partial_results = candidates.copy() and the test of the periodic flush
\* (729-736)
MPublish ==
    /\ mpc = "publish" /\ hpc = "idle"
    /\ partial_results' = candidates
    /\ midx' = midx + 1
    /\ IF Len(candidates) % FlushEvery = 0 /\ Has(json_out_path)
       THEN /\ mwrite' = Some(ListPayload(Deref(heap, candidates)))
            /\ mpc' = "flush_open"
       ELSE /\ mpc' = "score" /\ UNCHANGED mwrite
    /\ UNCHANGED <<margs, screener, mtable, mbarsOf, mshortOf, json_out_path,
                   candidates, heap, mfull, mpass, msurv, msyms, mcur,
                   mscored, mfinal, hpc, hsig, hdump, hwrote, mfile, mstdout,
                   mexit>>
    /\ UNCHANGED notV1

\* write_final_json of main (32-45): open(json_out_path, 'w') truncates the
\* file; without a path only the markers are printed
MWriteOpen ==
    /\ mpc \in {"flush_open", "final_open"} /\ hpc = "idle"
    /\ \/ /\ Has(json_out_path)
          /\ mfile' = FileTruncated
          /\ mpc' = IF mpc = "flush_open" THEN "flush_write" ELSE "final_write"
          /\ UNCHANGED <<mstdout, mwrite>>
       \/ /\ mstdout' = Append(mstdout, Val(mwrite))   \* no path, or open raised
          /\ mwrite' = None
          /\ mpc' = IF mpc = "flush_open" THEN "score" ELSE "return"
          /\ UNCHANGED mfile
    /\ UNCHANGED <<margs, screener, mtable, mbarsOf, mshortOf, json_out_path,
                   partial_results, candidates, heap, mfull, mpass, msurv,
                   msyms, midx, mcur, mscored, mfinal, hpc, hsig, hdump,
                   hwrote, mexit>>
    /\ UNCHANGED notV1

\* f.write(payload) and close, then the salvage markers
MWriteWrite ==
    /\ mpc \in {"flush_write", "final_write"} /\ hpc = "idle"
    /\ \/ mfile' = FileDoc(Val(mwrite))
       \/ UNCHANGED mfile                              \* the write raised
    /\ mstdout' = Append(mstdout, Val(mwrite))
    /\ mwrite' = None
    /\ mpc' = IF mpc = "flush_write" THEN "score" ELSE "return"
    /\ UNCHANGED <<margs, screener, mtable, mbarsOf, mshortOf, json_out_path,
                   partial_results, candidates, heap, mfull, mpass, msurv,
                   msyms, midx, mcur, mscored, mfinal, hpc, hsig, hdump,
                   hwrote, mexit>>
    /\ UNCHANGED notV1

\* the scoring loop is exhausted, the late pass begins (742-744)
MScoreDone ==
    /\ mpc = "score" /\ hpc = "idle" /\ midx = Len(msyms)
    /\ midx' = 0
    /\ mpc' = "late"
    /\ UNCHANGED <<margs, screener, mtable, mbarsOf, mshortOf, json_out_path,
                   partial_results, candidates, heap, mfull, mpass, msurv,
                   msyms, mcur, mscored, mfinal, mwrite, hpc, hsig, hdump,
                   hwrote, mfile, mstdout, mexit>>
    /\ UNCHANGED notV1

\* one iteration of the late short-interest pass (744-767): the dict is
\* changed in place
MLateOne ==
    /\ mpc = "late" /\ hpc = "idle" /\ midx < Len(candidates)
    /\ LET ref == candidates[midx + 1]
       IN  heap' = [heap EXCEPT ![ref] = Some(LateShortInterest(Val(@), mshortOf[ref[2]]))]
    /\ midx' = midx + 1
    /\ UNCHANGED <<margs, screener, mtable, mbarsOf, mshortOf, json_out_path,
                   partial_results, candidates, mfull, mpass, msurv, msyms,
                   mcur, mscored, mfinal, mwrite, mpc, hpc, hsig, hdump,
                   hwrote, mfile, mstdout, mexit>>
    /\ UNCHANGED notV1

\* sort, slice, auto-activation of the full universe or cold-tape recovery
\* (769-806)
MAssemble ==
    /\ mpc = "late" /\ hpc = "idle" /\ midx = Len(candidates)
    /\ LET sorted == SortFinal(Deref(heap, candidates))
           final == Take(sorted, margs.limit)
           out == ColdTapeRecovery(sorted, margs.limit, mfull)
       IN  /\ candidates' = [i \in 1..Len(sorted) |-> <<mpass, sorted[i].symbol>>]
           /\ IF ~mfull /\ Len(final) < ActivateWhen /\ margs.full_enabled
              THEN /\ mfull' = TRUE /\ mpass' = mpass + 1
                   /\ mpc' = "load"
                   /\ UNCHANGED <<heap, mfinal>>
              ELSE /\ heap' = [r \in DOMAIN heap |->
                                  IF \E i \in 1..Len(out) : <<mpass, out[i].symbol>> = r
                                  THEN Some(out[CHOOSE i \in 1..Len(out) :
                                                    <<mpass, out[i].symbol>> = r])
                                  ELSE heap[r]]
                   /\ mfinal' = Some([i \in 1..Len(out) |-> <<mpass, out[i].symbol>>])
                   /\ mpc' = "store"
                   /\ UNCHANGED <<mfull, mpass>>
    /\ UNCHANGED <<margs, screener, mtable, mbarsOf, mshortOf, json_out_path,
                   partial_results, msurv, msyms, midx, mcur, mscored,
                   mwrite, hpc, hsig, hdump, hwrote, mfile, mstdout, mexit>>
    /\ UNCHANGED notV1

\* partial_results = candidates in main (838), then write_final_json
\* serialises the list (35)
MStore ==
    /\ mpc = "store" /\ hpc = "idle"
    /\ partial_results' = Val(mfinal)
    /\ mwrite' = Some(ListPayload(Deref(heap, Val(mfinal))))
    /\ mpc' = "final_open"
    /\ UNCHANGED <<margs, screener, mtable, mbarsOf, mshortOf, json_out_path,
                   candidates, heap, mfull, mpass, msurv, msyms, midx, mcur,
                   mscored, mfinal, hpc, hsig, hdump, hwrote, mfile, mstdout,
                   mexit>>
    /\ UNCHANGED notV1

\* main() returns, the interpreter exits
MReturn ==
    /\ mpc = "return" /\ hpc = "idle"
    /\ mexit' = Some(0)
    /\ mpc' = "exited"
    /\ UNCHANGED <<margs, screener, mtable, mbarsOf, mshortOf, json_out_path,
                   partial_results, candidates, heap, mfull, mpass, msurv,
                   msyms, midx, mcur, mscored, mfinal, mwrite, hpc, hsig,
                   hdump, hwrote, mfile, mstdout>>
    /\ UNCHANGED notV1

\* SIGTERM or SIGINT arrives between two bytecodes of the main thread:
\* sigterm_handler starts and serialises partial_results (47-55, 35)
HSignal ==
    /\ hpc = "idle" /\ ~Has(hsig) /\ mpc \notin {"exited", "crashed"}
    /\ hsig' = Some([scored |-> mscored, mpc |-> mpc])
    /\ hdump' = Some(ListPayload(Deref(heap, partial_results)))
    /\ hpc' = IF Has(json_out_path) THEN "open" ELSE "markers"
    /\ UNCHANGED <<margs, screener, mtable, mbarsOf, mshortOf, json_out_path,
                   partial_results, candidates, heap, mfull, mpass, msurv,
                   msyms, midx, mcur, mscored, mfinal, mwrite, mpc, hwrote,
                   mfile, mstdout, mexit>>
    /\ UNCHANGED notV1

\* the handler's open(json_out_path, 'w')
HOpen ==
    /\ hpc = "open"
    /\ \/ mfile' = FileTruncated /\ hpc' = "write"
       \/ hpc' = "markers" /\ UNCHANGED mfile          \* open raised
    /\ UNCHANGED <<margs, screener, mtable, mbarsOf, mshortOf, json_out_path,
                   partial_results, candidates, heap, mfull, mpass, msurv,
                   msyms, midx, mcur, mscored, mfinal, mwrite, mpc, hsig,
                   hdump, hwrote, mstdout, mexit>>
    /\ UNCHANGED notV1

\* the handler's f.write(payload) and close
HWrite ==
    /\ hpc = "write"
    /\ \/ mfile' = FileDoc(Val(hdump)) /\ hwrote' = TRUE
       \/ UNCHANGED <<mfile, hwrote>>                  \* the write raised
    /\ hpc' = "markers"
    /\ UNCHANGED <<margs, screener, mtable, mbarsOf, mshortOf, json_out_path,
                   partial_results, candidates, heap, mfull, mpass, msurv,
                   msyms, midx, mcur, mscored, mfinal, mwrite, mpc, hsig,
                   hdump, mstdout, mexit>>
    /\ UNCHANGED notV1

\* the salvage markers, then os._exit(0) (45, 58)
HExit ==
    /\ hpc = "markers"
    /\ mstdout' = Append(mstdout, Val(hdump))
    /\ mexit' = Some(0)
    /\ hpc' = AfterDump
    /\ UNCHANGED <<margs, screener, mtable, mbarsOf, mshortOf, json_out_path,
                   partial_results, candidates, heap, mfull, mpass, msurv,
                   msyms, midx, mcur, mscored, mfinal, mwrite, mpc, hsig,
                   hdump, hwrote, mfile>>
    /\ UNCHANGED notV1

V1Next ==
    \/ MStart \/ MLoad \/ MScoreRow \/ MAppend \/ MPublish \/ MWriteOpen
    \/ MWriteWrite \/ MScoreDone \/ MLateOne \/ MAssemble \/ MStore \/ MReturn
    \/ HSignal \/ HOpen \/ HWrite \/ HExit

-----------------------------------------------------------------------------
(* Claims about universe_screener.py's output protocol *)

\* C1 as stated: whenever a reader opens the output path (during a periodic
\* flush, the final write or a signal-triggered dump) it finds no invalid
\* JSON and no truncated document.
C1_ReaderSeesValidJson == mfile = FileAbsent \/ ValidJson(mfile)

ScanPositions == {"score", "append", "publish", "flush_open", "flush_write"}

\* C2 as stated: a termination signal raised in the scan loop after K
\* symbols were scored makes the handler emit a payload of exactly K items
\* that carries meta.partial = true.
C2_SignalDumpHasKItems ==
    (Has(hsig) /\ Val(hsig).mpc \in ScanPositions) =>
        /\ Len(Val(hdump).items) = Val(hsig).scored
        /\ Has(Val(hdump).meta)
        /\ Val(Val(hdump).meta).partial = TRUE

-----------------------------------------------------------------------------
(* Claims about the scan of universe_screener.py *)

\* C13: an exception raised while one symbol is scored does not end the
\* scan: the process is never ended by it with shortlisted symbols left.
C13_SymbolErrorSkipped == ~(mpc = "crashed" /\ midx < Len(msyms))

\* a precedes b in the documented final order: higher score, then higher
\* relative volume, then lower price, then ascending symbol
OrderedBefore(a, b) ==
    \/ a.score > b.score
    \/ /\ a.score = b.score
       /\ \/ a.rel_vol_30m > b.rel_vol_30m
          \/ /\ a.rel_vol_30m = b.rel_vol_30m
             /\ \/ a.price < b.price
                \/ a.price = b.price /\ SymRank(a.symbol) < SymRank(b.symbol)

\* the list screen_universe has returned
ReturnedList == Deref(heap, Val(mfinal))

\* C15: every two adjacent items of the returned list are in the documented
\* order (score descending, relative volume descending, price ascending,
\* symbol ascending).
C15_FinalOrderStrict ==
    Has(mfinal) =>
        \A i \in 1..(Len(ReturnedList) - 1) :
            OrderedBefore(ReturnedList[i], ReturnedList[i + 1])

ColdTape == Has(mfinal) /\ mfull /\ Len(ReturnedList) < margs.limit

\* C17: when a full-universe scan returns fewer than limit items, the
\* candidates of the secondary band (score 55..64) that it returns are the
\* backfilled ones: relabelled PRE_BREAKOUT and annotated as
\* cold-tape-sourced.
C17_ColdTapeBackfillAnnotated ==
    ColdTape =>
        \A j \in 1..Len(ReturnedList) :
            (ReturnedList[j].score >= 55 /\ ReturnedList[j].score <= 64) =>
                /\ ReturnedList[j].action = "PRE_BREAKOUT"
                /\ ReturnedList[j].cold_tape_enhanced
                /\ ReturnedList[j].thesis.cold_tape

\* C21: no row priced outside the configured band is shortlisted, and no
\* item of the returned list has such a price.
C21_PriceBandRespected ==
    /\ \A i \in 1..Len(msyms), j \in 1..Len(msurv) :
           msurv[j].symbol = msyms[i] => InPriceBand(msurv[j].price)
    /\ Has(mfinal) =>
           \A i \in 1..Len(ReturnedList) : InPriceBand(ReturnedList[i].price)

\* the tier map_action_with_tape gives to the reported (rounded) score of a
\* candidate and the tape inputs of its row
TierOfReported(c, row) ==
    map_action_with_tape(Pts(c.score), row.live_price, row.live_vwap,
                         row.ema9_ge_ema20)

\* C26: every item of the returned list carries the action that
\* map_action_with_tape assigns to the item's reported score and the tape
\* inputs of its row, also after the late short-interest pass.
C26_ActionMatchesReportedScore ==
    lver = "v1" =>
        \A i \in 1..Len(lout) : lout[i].action = TierOfReported(lout[i], lrow)

\* C28: from one step of a run to the next the number of items held in
\* partial_results does not decrease.
C28_PartialResultsNeverShrink ==
    [][Len(partial_results') >= Len(partial_results)]_vars

\* screen_universe was re-invoked at most once, by a pass that was not in
\* full-universe mode
AtMostOneRestart ==
    /\ mpass \in {0, 1, 2}
    /\ mpass = 2 => mfull /\ ~margs.full_universe

\* C29: a top-level call of screen_universe re-invokes itself at most once,
\* only out of a pass that is not in full-universe mode, and never ends
\* otherwise than by returning a list.
C29_OneRestartAndReturns == AtMostOneRestart /\ mpc # "crashed"

\* one pass of screen_universe up to the final sort (355-770) as a function
\* of its inputs; None when a row lookup raises
ScanPass(self, rows, full_universe_mode, barsOf, shortOf) ==
    LET par == NarrowParams(self, full_universe_mode)
        surv == NarrowLoop("v1", rows, par.adv_pct, par.dol_pct, par.atrp_pct,
                           par.step, par.shortlist_min)
        syms == Column(ShortlistV1(rows, surv, par.shortlist_min,
                                   par.shortlist_target), "symbol")
        cand(sym) ==
            LET row == FirstRow(surv, sym)
                relvol == RelVolV1(barsOf[sym], row)
            IN  LateShortInterest(
                    Candidate(row, score_row(row, barsOf[sym], relvol), relvol),
                    shortOf[sym])
    IN  IF \A i \in 1..Len(syms) : \E j \in 1..Len(surv) : surv[j].symbol = syms[i]
        THEN Some(SortFinal([i \in 1..Len(syms) |-> cand(syms[i])]))
        ELSE None

\* screen_universe(limit, full_universe_mode) of an instance (355-806)
screen_universe(self, rows, limit, full_universe_mode, enabled, barsOf, shortOf) ==
    LET first == ScanPass(self, rows, full_universe_mode, barsOf, shortOf)
    IN  IF ~Has(first) THEN None
        ELSE IF ~full_universe_mode /\ Len(Take(Val(first), limit)) < ActivateWhen
                /\ enabled
        THEN LET second == ScanPass(self, rows, TRUE, barsOf, shortOf)
             IN  IF Has(second)
                 THEN Some(ColdTapeRecovery(Val(second), limit, TRUE))
                 ELSE None
        ELSE Some(ColdTapeRecovery(Val(first), limit, full_universe_mode))

\* what an instance with the given fields returns for the inputs of the run
ReturnedBy(self) ==
    screen_universe(self, mtable.rows, margs.limit, margs.full_universe,
                    margs.full_enabled, mbarsOf, mshortOf)

\* screen_universe has just returned to main (836)
JustReturned == mpc = "store" /\ hpc = "idle"

-----------------------------------------------------------------------------
(* The specifications *)

SpecCand == CandInit /\ [][CandNext]_vars

SpecV2 == V2Init /\ [][V2Next]_vars

SpecNarrow == NarrowInit /\ [][NarrowNext]_vars

SpecV1 == V1Init /\ [][V1Next]_vars

====
